---- MODULE Spec2Model ----
(***************************************************************************)
(* State-machine model of the page-level logic of the application:         *)
(*   - HijriCalendarPage: month navigation and the calendarDays grid       *)
(*   - HomePage / PrayerTimesPage: geolocation, reverse geocoding,         *)
(*     prayer-time fetch, next-prayer selection                            *)
(*   - chapter-list search filters (QuranCardPage, TafsirPage, QuranCard)  *)
(*   - SettingsPage: useDarkMode and the stored preferences                *)
(*   - chapter detail and commentary requests (SurahDetailPage, TafsirPage, *)
(*     QuranCard reader) and their caches                                   *)
(*   - useDarkMode in several views that share one localStorage            *)
(* Strings whose characters matter (search terms, names, times) are        *)
(* sequences of one-character strings.                                     *)
(***************************************************************************)
EXTENDS Integers, Sequences, FiniteSets, TLC

VARIABLES
  \* HijriCalendarPage
  currentDate,      \* useState<Date>: [year, month (0-based), day]
  today,            \* what new Date() returns during the session
  calendarDays,     \* the memoized grid
  \* next-prayer selection (HomePage.getNextPrayer, PrayerTimesPage.nextPrayer)
  npTimings,        \* timings object of the API response
  npNow,            \* new Date(): [hours, minutes]
  npHome,           \* value returned by HomePage.getNextPrayer
  npJadwal,         \* value of the PrayerTimesPage.nextPrayer memo
  \* place-name extraction of reverseGeocode on both pages
  gcData,           \* parsed body of the reverse-geocoding response
  gcHome,           \* HomePage: value passed to setLocationName
  gcJadwal,         \* PrayerTimesPage: value passed to setLocationName
  \* the routed pages HomePage ("/") and PrayerTimesPage ("/jadwal")
  clock,            \* the local wall clock new Date() reads: day, hours, minutes
  route,            \* the page the router has mounted
  hasGeolocation,   \* whether navigator.geolocation exists
  home,             \* HomePage component state
  homeReq,          \* HomePage: callbacks still to come, and its interval
  jadwal,           \* PrayerTimesPage component state
  jadwalReq,        \* PrayerTimesPage: callbacks still to come
  \* the chapter-list views QuranCardPage, TafsirPage and the QuranCard dialog
  listView,         \* the view that is mounted: "quran", "tafsir" or "card"
  listReq,          \* chapter-list requests of the mounted view in flight
  listFetched,      \* views whose chapter-list request succeeded this session
  sessionCache,     \* sessionStorage item "equran_surah_list_v2"
  quranPage,        \* QuranCardPage (with useSurahList) component state
  tafsirPage,       \* TafsirPage component state
  card,             \* QuranCard component state
  \* SettingsPage with useDarkMode
  storage,          \* localStorage items darkMode, notifications, autoPlay, fontSize
  systemDark,       \* matchMedia("(prefers-color-scheme: dark)").matches
  rootDark,         \* whether document.documentElement has the class 'dark'
  rootFontSize,     \* document.documentElement.style.fontSize
  settings,         \* SettingsPage component state, isDarkMode included
  darkToggled,      \* argument of the last toggleDarkMode call of this mount
  manualDark,       \* history: a dark-mode preference was set by hand
  \* the chapter-detail views SurahDetailPage, TafsirPage and the QuranCard reader
  detailView,       \* the view that is mounted: "quran", "tafsir" or "card"
  chapterId,        \* route parameter id; QuranCard: number of selectedSurah
  detailReq,        \* chapter-detail requests in flight
  detailCache,      \* sessionStorage items "equran_surah_<n>"
  detailFetched,    \* <<view, n>> whose detail request succeeded this session
  lateArrived,      \* a response arrived after the teardown of its owner
  surahPage,        \* SurahDetailPage component state
  tafsirDetail,     \* TafsirPage: view, tafsirData, loading, error
  reader,           \* QuranCard: isReaderOpen, surahDetail, loadingDetail
  \* useDarkMode in the views that share one localStorage
  viewDark,         \* isDarkMode of each view
  storedDark,       \* the shared localStorage item "darkMode"
  storageEvents,    \* per view: newValue of the storage events not yet handled
  togglesLeft,      \* toggles the users still make
  \* the Hijri-date fetch of HijriCalendarPage
  hijriPage,        \* hijriDate, isLoading, error
  hijriReq          \* dates of the conversion requests in flight

calVars == <<currentDate, today, calendarDays>>
npVars  == <<npTimings, npNow, npHome, npJadwal>>
gcVars  == <<gcData, gcHome, gcJadwal>>
pageVars == <<clock, route, hasGeolocation, home, homeReq, jadwal, jadwalReq>>
listVars == <<listView, listReq, listFetched, sessionCache, quranPage, tafsirPage,
             card>>
setVars == <<storage, systemDark, rootDark, rootFontSize, settings, darkToggled,
            manualDark>>

chapVars == <<detailView, chapterId, detailReq, detailCache, detailFetched,
             lateArrived, surahPage, tafsirDetail, reader>>

viewVars == <<viewDark, storedDark, storageEvents, togglesLeft>>

hijriVars == <<hijriPage, hijriReq>>

vars == <<calVars, npVars, gcVars, pageVars, listVars, setVars, chapVars,
          viewVars, hijriVars>>

OtherThanCal == <<npVars, gcVars, pageVars, listVars, setVars,
  chapVars, viewVars, hijriVars>>
OtherThanNp  == <<calVars, gcVars, pageVars, listVars, setVars,
  chapVars, viewVars, hijriVars>>
OtherThanGc  == <<calVars, npVars, pageVars, listVars, setVars,
  chapVars, viewVars, hijriVars>>
OtherThanPages == <<calVars, npVars, gcVars, listVars, setVars,
  chapVars, viewVars, hijriVars>>
OtherThanLists == <<calVars, npVars, gcVars, pageVars, setVars,
  chapVars, viewVars, hijriVars>>
OtherThanSettings == <<calVars, npVars, gcVars, pageVars, listVars,
  chapVars, viewVars, hijriVars>>
OtherThanChapters == <<calVars, npVars, gcVars, pageVars, listVars, setVars,
  viewVars, hijriVars>>
OtherThanHijri == <<npVars, gcVars, pageVars, listVars, setVars, chapVars,
  viewVars>>
OtherThanViews == <<calVars, npVars, gcVars, pageVars, listVars, setVars,
  chapVars, hijriVars>>

\* null, and a present value v, of a nullable field
NULL == <<>>
Some(v) == <<v>>

----------------------------------------------------------------------------
(* JavaScript Date arithmetic used by the calendar page *)

IsLeapYear(y) == (y % 4 = 0 /\ y % 100 # 0) \/ y % 400 = 0

\* number of days of month m (0-based) of year y
DaysInMonth(y, m) ==
  IF m = 1 THEN (IF IsLeapYear(y) THEN 29 ELSE 28)
  ELSE IF m \in {3, 5, 8, 10} THEN 30 ELSE 31

\* new Date(year, month, day) with the month wrapped but not carried into
\* the year
MakeDate_noCarry(y, m, d) ==
  LET yy == y
      mm == m % 12
  IN IF d >= 1
       THEN [year |-> yy, month |-> mm, day |-> d]
       ELSE LET py == IF mm = 0 THEN yy - 1 ELSE yy
                pm == IF mm = 0 THEN 11 ELSE mm - 1
            IN [year |-> py, month |-> pm, day |-> DaysInMonth(py, pm) + d]

\* new Date(year, month, day): month under/overflow is carried into the year,
\* day 0 is the last day of the preceding month
MakeDate(y, m, d) ==
  LET yy == y + (m \div 12)
      mm == m % 12
  IN IF d >= 1
       THEN [year |-> yy, month |-> mm, day |-> d]
       ELSE LET py == IF mm = 0 THEN yy - 1 ELSE yy
                pm == IF mm = 0 THEN 11 ELSE mm - 1
            IN [year |-> py, month |-> pm, day |-> DaysInMonth(py, pm) + d]

\* Julian day number of a civil date (proleptic Gregorian calendar)
JulianDay(dt) ==
  LET m1 == dt.month + 1
      a  == (14 - m1) \div 12
      y  == dt.year + 4800 - a
      m  == m1 + 12 * a - 3
  IN dt.day + ((153 * m + 2) \div 5) + 365 * y + (y \div 4) - (y \div 100)
       + (y \div 400) - 32045

\* Date.prototype.getDay(): 0 = Sunday .. 6 = Saturday
GetDay(dt) == (JulianDay(dt) + 1) % 7

----------------------------------------------------------------------------
(* HijriCalendarPage: calendarDays *)

MinYear == 1999
MaxYear == 2101

Cell(d, cur, td) == [date |-> d, isCurrentMonth |-> cur, isToday |-> td]

\* calendarDays with the trailing filler count taken as 7 - weekday
BuildCalendarDays_trailing7(cd, now) ==
  LET year  == cd.year
      month == cd.month
      firstDay == MakeDate(year, month, 1)
      lastDay  == MakeDate(year, month + 1, 0)
      prevMonthDays == GetDay(firstDay)
      nextMonthDays == 7 - GetDay(lastDay)
      prevMonthLastDay == MakeDate(year, month, 0).day
      isCurrentMonth == now.month = month /\ now.year = year
      todayDate == IF isCurrentMonth THEN now.day ELSE -1
      prevPart == [j \in 1..prevMonthDays |->
                     Cell(prevMonthLastDay - (prevMonthDays - j), FALSE, FALSE)]
      curPart  == [i \in 1..lastDay.day |-> Cell(i, TRUE, i = todayDate)]
      nextPart == [i \in 1..nextMonthDays |-> Cell(i, FALSE, FALSE)]
  IN prevPart \o curPart \o nextPart

\* calendarDays with the leading filler numbered from the displayed month's length
BuildCalendarDays_prevLen(cd, now) ==
  LET year  == cd.year
      month == cd.month
      firstDay == MakeDate(year, month, 1)
      lastDay  == MakeDate(year, month + 1, 0)
      prevMonthDays == GetDay(firstDay)
      nextMonthDays == 6 - GetDay(lastDay)
      prevMonthLastDay == MakeDate(year, month + 1, 0).day
      isCurrentMonth == now.month = month /\ now.year = year
      todayDate == IF isCurrentMonth THEN now.day ELSE -1
      prevPart == [j \in 1..prevMonthDays |->
                     Cell(prevMonthLastDay - (prevMonthDays - j), FALSE, FALSE)]
      curPart  == [i \in 1..lastDay.day |-> Cell(i, TRUE, i = todayDate)]
      nextPart == [i \in 1..nextMonthDays |-> Cell(i, FALSE, FALSE)]
  IN prevPart \o curPart \o nextPart

\* calendarDays with the today test comparing the month only
BuildCalendarDays_noYear(cd, now) ==
  LET year  == cd.year
      month == cd.month
      firstDay == MakeDate(year, month, 1)
      lastDay  == MakeDate(year, month + 1, 0)
      prevMonthDays == GetDay(firstDay)
      nextMonthDays == 6 - GetDay(lastDay)
      prevMonthLastDay == MakeDate(year, month, 0).day
      isCurrentMonth == now.month = month
      todayDate == IF isCurrentMonth THEN now.day ELSE -1
      prevPart == [j \in 1..prevMonthDays |->
                     Cell(prevMonthLastDay - (prevMonthDays - j), FALSE, FALSE)]
      curPart  == [i \in 1..lastDay.day |-> Cell(i, TRUE, i = todayDate)]
      nextPart == [i \in 1..nextMonthDays |-> Cell(i, FALSE, FALSE)]
  IN prevPart \o curPart \o nextPart

\* the body of the calendarDays memo, for currentDate = cd and new Date() = now
BuildCalendarDays(cd, now) ==
  LET year  == cd.year
      month == cd.month
      firstDay == MakeDate(year, month, 1)
      lastDay  == MakeDate(year, month + 1, 0)
      prevMonthDays == GetDay(firstDay)
      nextMonthDays == 6 - GetDay(lastDay)
      prevMonthLastDay == MakeDate(year, month, 0).day
      isCurrentMonth == now.month = month /\ now.year = year
      todayDate == IF isCurrentMonth THEN now.day ELSE -1
      prevPart == [j \in 1..prevMonthDays |->
                     Cell(prevMonthLastDay - (prevMonthDays - j), FALSE, FALSE)]
      curPart  == [i \in 1..lastDay.day |-> Cell(i, TRUE, i = todayDate)]
      nextPart == [i \in 1..nextMonthDays |-> Cell(i, FALSE, FALSE)]
  IN prevPart \o curPart \o nextPart

\* dates on which the page may be opened
TodaySet ==
  { [year |-> 2000, month |-> 1,  day |-> 29],
    [year |-> 2023, month |-> 11, day |-> 31],
    [year |-> 2024, month |-> 0,  day |-> 1],
    [year |-> 2024, month |-> 1,  day |-> 29],
    [year |-> 2025, month |-> 5,  day |-> 15],
    [year |-> 2100, month |-> 1,  day |-> 28] }

InitCal ==
  /\ today \in TodaySet
  /\ currentDate = today
  /\ calendarDays = BuildCalendarDays(currentDate, today)

\* the calendar page while it is not mounted
IdleCal ==
  /\ today = [year |-> 2025, month |-> 5, day |-> 15]
  /\ currentDate = today
  /\ calendarDays = <<>>

SetCurrentDate(d) ==
  /\ currentDate' = d
  /\ calendarDays' = BuildCalendarDays(d, today)
  /\ UNCHANGED today
  /\ UNCHANGED OtherThanCal

goToPreviousMonth ==
  /\ (currentDate.year > MinYear \/ currentDate.month > 0)
  /\ SetCurrentDate(MakeDate(currentDate.year, currentDate.month - 1, 1))

goToNextMonth ==
  /\ (currentDate.year < MaxYear \/ currentDate.month < 11)
  /\ SetCurrentDate(MakeDate(currentDate.year, currentDate.month + 1, 1))

goToToday == SetCurrentDate(today)

NextCal == goToPreviousMonth \/ goToNextMonth \/ goToToday


----------------------------------------------------------------------------
(* Strings as sequences of characters *)

Digits == <<"0", "1", "2", "3", "4", "5", "6", "7", "8", "9">>

DigitChar(n) == Digits[n + 1]

DigitValue(c) == CHOOSE n \in 0..9 : Digits[n + 1] = c

\* position of the first occurrence of character c in s, 0 when absent
IndexOf(s, c) ==
  IF \E i \in 1..Len(s) : s[i] = c
    THEN CHOOSE i \in 1..Len(s) : s[i] = c /\ \A j \in 1..(i - 1) : s[j] # c
    ELSE 0

\* String.prototype.split(sep) for a one-character separator
RECURSIVE Split(_, _)
Split(s, sep) ==
  LET i == IndexOf(s, sep)
  IN IF i = 0 THEN <<s>>
     ELSE <<SubSeq(s, 1, i - 1)>> \o Split(SubSeq(s, i + 1, Len(s)), sep)

\* Number(s) for a string of decimal digits
RECURSIVE ToNumber(_)
ToNumber(s) ==
  IF s = <<>> THEN 0
  ELSE ToNumber(SubSeq(s, 1, Len(s) - 1)) * 10 + DigitValue(s[Len(s)])

\* the "HH:MM" form in which the timings service returns a time of day
FormatTime(h, m) ==
  <<DigitChar(h \div 10), DigitChar(h % 10), ":",
    DigitChar(m \div 10), DigitChar(m % 10)>>

----------------------------------------------------------------------------
(* Next-prayer selection *)

\* HomePage.fetchPrayerTimes: the list built from the timings object
FormattedPrayerTimes(timings) ==
  << [key |-> "subuh",   label |-> "Subuh",   time |-> timings.Fajr],
     [key |-> "dzuhur",  label |-> "Dzuhur",  time |-> timings.Dhuhr],
     [key |-> "ashar",   label |-> "Ashar",   time |-> timings.Asr],
     [key |-> "maghrib", label |-> "Maghrib", time |-> timings.Maghrib],
     [key |-> "isya",    label |-> "Isya",    time |-> timings.Isha] >>

\* PrayerTimesPage.fetchPrayerTimes: the record built from the response
PrayerTimesRecord(timings, date) ==
  [ date |-> date.gregorian, hijriDate |-> date.hijri,
    fajr |-> timings.Fajr, sunrise |-> timings.Sunrise,
    dhuhr |-> timings.Dhuhr, asr |-> timings.Asr,
    maghrib |-> timings.Maghrib, isha |-> timings.Isha,
    imsak |-> timings.Imsak, midnight |-> timings.Midnight ]

\* const [hours, minutes] = time.split(":").map(Number); hours * 60 + minutes
TimeInMinutes(time) ==
  LET parts == Split(time, ":")
  IN ToNumber(parts[1]) * 60 + ToNumber(parts[2])

\* now.getHours() * 60 + now.getMinutes()
CurrentTime(now) == now.hours * 60 + now.minutes

\* the scan with the comparison >= in place of >
FirstLaterOrFirst_orEqual(prayers, now) ==
  LET later == {i \in 1..Len(prayers) :
                  TimeInMinutes(prayers[i].time) >= CurrentTime(now)}
  IN IF later # {}
       THEN Some(prayers[CHOOSE i \in later : \A j \in later : i <= j])
       ELSE Some(prayers[1])

\* the scan of both pages: the first entry later than now, else the first
FirstLaterOrFirst(prayers, now) ==
  LET later == {i \in 1..Len(prayers) :
                  TimeInMinutes(prayers[i].time) > CurrentTime(now)}
  IN IF later # {}
       THEN Some(prayers[CHOOSE i \in later : \A j \in later : i <= j])
       ELSE Some(prayers[1])

\* HomePage.getNextPrayer
GetNextPrayer(prayerTimes, now) ==
  IF Len(prayerTimes) = 0 THEN NULL ELSE FirstLaterOrFirst(prayerTimes, now)

\* PrayerTimesPage.nextPrayer
NextPrayerMemo(prayerTimes, now) ==
  IF prayerTimes = NULL THEN NULL
  ELSE LET prayers ==
             << [name |-> "Subuh",   time |-> prayerTimes[1].fajr],
                [name |-> "Dzuhur",  time |-> prayerTimes[1].dhuhr],
                [name |-> "Ashar",   time |-> prayerTimes[1].asr],
                [name |-> "Maghrib", time |-> prayerTimes[1].maghrib],
                [name |-> "Isya",    time |-> prayerTimes[1].isha] >>
       IN FirstLaterOrFirst(prayers, now)

\* times of day the service may return for a prayer
PrayerClock ==
  { [hours |-> 4,  minutes |-> 37], [hours |-> 12, minutes |-> 3],
    [hours |-> 15, minutes |-> 24], [hours |-> 17, minutes |-> 59],
    [hours |-> 19, minutes |-> 9] }

\* moments at which the selection is evaluated
NowSet ==
  { [hours |-> 0,  minutes |-> 0],  [hours |-> 4,  minutes |-> 37],
    [hours |-> 12, minutes |-> 3],  [hours |-> 12, minutes |-> 4],
    [hours |-> 19, minutes |-> 9],  [hours |-> 23, minutes |-> 59] }

TimeString(c) == FormatTime(c.hours, c.minutes)

\* a timings object with the five obligatory times f, d, a, m, i
Timings(f, d, a, m, i) ==
  [ Fajr |-> TimeString(f), Dhuhr |-> TimeString(d), Asr |-> TimeString(a),
    Maghrib |-> TimeString(m), Isha |-> TimeString(i),
    Sunrise |-> FormatTime(5, 55), Imsak |-> FormatTime(4, 27),
    Midnight |-> FormatTime(23, 50) ]

ResponseDate == [gregorian |-> "15-06-2025", hijri |-> "19-12-1446"]

InitNp ==
  /\ \E f \in PrayerClock, d \in PrayerClock, a \in PrayerClock,
        m \in PrayerClock, i \in PrayerClock :
       npTimings = Some(Timings(f, d, a, m, i))
  /\ npNow \in NowSet
  /\ npHome = NULL
  /\ npJadwal = NULL

IdleNp ==
  /\ npTimings = NULL
  /\ npNow = [hours |-> 0, minutes |-> 0]
  /\ npHome = NULL
  /\ npJadwal = NULL

HomeGetNextPrayer ==
  /\ npTimings # NULL
  /\ npHome' = GetNextPrayer(FormattedPrayerTimes(npTimings[1]), npNow)
  /\ UNCHANGED <<npTimings, npNow, npJadwal>>
  /\ UNCHANGED OtherThanNp

JadwalNextPrayer ==
  /\ npTimings # NULL
  /\ npJadwal' = NextPrayerMemo(Some(PrayerTimesRecord(npTimings[1], ResponseDate)),
                               npNow)
  /\ UNCHANGED <<npTimings, npNow, npHome>>
  /\ UNCHANGED OtherThanNp

NextNp == HomeGetNextPrayer \/ JadwalNextPrayer

\* a page showing the next prayer, as constructed: no prayer times yet
InitNpShown ==
  /\ npTimings = NULL
  /\ npNow \in NowSet
  /\ npHome = NULL
  /\ npJadwal = NULL

\* the obligatory times of the responses the pages are shown
ShownTimings ==
  { Timings(f, d, a, m, i) : f \in {[hours |-> 4, minutes |-> 37]},
      d \in {[hours |-> 12, minutes |-> 3]},
      a \in {[hours |-> 15, minutes |-> 24]},
      m \in {[hours |-> 17, minutes |-> 59], [hours |-> 19, minutes |-> 9]},
      i \in PrayerClock }

\* HomePage mounted: setPrayerTimes with the times of a response; the
\* render that follows evaluates useMemo(() => getNextPrayer(),
\* [getNextPrayer]), getNextPrayer being new with prayerTimes
HomeTimingsShown(timings) ==
  /\ npJadwal = NULL
  /\ npTimings' = Some(timings)
  /\ npHome' = GetNextPrayer(FormattedPrayerTimes(timings), npNow)
  /\ UNCHANGED <<npNow, npJadwal>>
  /\ UNCHANGED OtherThanNp

\* PrayerTimesPage mounted: setPrayerTimes with the record of a response;
\* the render that follows evaluates the nextPrayer memo on [prayerTimes]
JadwalTimingsShown(timings) ==
  /\ npHome = NULL
  /\ npTimings' = Some(timings)
  /\ npJadwal' = NextPrayerMemo(Some(PrayerTimesRecord(timings, ResponseDate)),
                               npNow)
  /\ UNCHANGED <<npNow, npHome>>
  /\ UNCHANGED OtherThanNp

\* the wall clock reaches a later moment of the day; no state of either
\* page changes, and a render for any other reason finds the dependencies
\* of the memo unchanged and keeps its value
TimePasses(now) ==
  /\ CurrentTime(now) > CurrentTime(npNow)
  /\ npNow' = now
  /\ UNCHANGED <<npTimings, npHome, npJadwal>>
  /\ UNCHANGED OtherThanNp

NextNpShown ==
  \/ \E timings \in ShownTimings : HomeTimingsShown(timings)
  \/ \E timings \in ShownTimings : JadwalTimingsShown(timings)
  \/ \E now \in NowSet : TimePasses(now)

----------------------------------------------------------------------------
(* Reverse geocoding: the place name taken from a parsed response *)

\* "Lokasi tidak dikenal"
Unknown ==
  <<"L", "o", "k", "a", "s", "i", " ", "t", "i", "d", "a", "k", " ",
    "d", "i", "k", "e", "n", "a", "l">>

\* JavaScript truthiness of an optional string: present and not empty
Truthy(x) == x # NULL /\ x[1] # <<>>

\* a || b
Or(a, b) == IF Truthy(a) THEN a ELSE b

\* data.address?.f
AddressField(data, f) ==
  IF data.address = NULL THEN NULL ELSE data.address[1][f]

\* HomePage.reverseGeocode with county and state tried in the other order
HomeLocationName_stateFirst(data) ==
  Or(AddressField(data, "city"),
  Or(AddressField(data, "town"),
  Or(AddressField(data, "village"),
  Or(AddressField(data, "state"),
  Or(AddressField(data, "county"),
     Some(Unknown))))))[1]

\* HomePage.reverseGeocode: the name computed from a parsed body
HomeLocationName(data) ==
  Or(AddressField(data, "city"),
  Or(AddressField(data, "town"),
  Or(AddressField(data, "village"),
  Or(AddressField(data, "county"),
  Or(AddressField(data, "state"),
     Some(Unknown))))))[1]

\* PrayerTimesPage.reverseGeocode: the name computed from a parsed body
JadwalLocationName(data) ==
  LET displayName == Or(data.display_name, Some(Unknown))[1]
  IN Or(AddressField(data, "city"),
     Or(AddressField(data, "town"),
     Or(AddressField(data, "village"),
     Or(AddressField(data, "county"),
     Or(AddressField(data, "state"),
     Or(Some(Split(displayName, ",")[1]),
        Some(Unknown)))))))[1]

\* values a field of the address object may have: absent, empty, a name
FieldValues(name) == {NULL, Some(<<>>), Some(<<name>>)}

Addresses ==
  {NULL} \cup
  { Some([city |-> c, town |-> t, village |-> v, county |-> k, state |-> s]) :
      c \in FieldValues("C"), t \in FieldValues("T"), v \in FieldValues("V"),
      k \in FieldValues("K"), s \in FieldValues("S") }

DisplayNames ==
  { NULL, Some(<<>>), Some(<<"a">>), Some(<<"a", ",", "b">>),
    Some(<<",", "b">>) }

GeoBodies == [address : Addresses, display_name : DisplayNames]

InitGc ==
  /\ gcData \in GeoBodies
  /\ gcHome = NULL
  /\ gcJadwal = NULL

IdleGc ==
  /\ gcData = [address |-> NULL, display_name |-> NULL]
  /\ gcHome = NULL
  /\ gcJadwal = NULL

HomeResolveName ==
  /\ gcHome' = Some(HomeLocationName(gcData))
  /\ UNCHANGED <<gcData, gcJadwal>>
  /\ UNCHANGED OtherThanGc

JadwalResolveName ==
  /\ gcJadwal' = Some(JadwalLocationName(gcData))
  /\ UNCHANGED <<gcData, gcHome>>
  /\ UNCHANGED OtherThanGc

NextGc == HomeResolveName \/ JadwalResolveName

----------------------------------------------------------------------------
(* HomePage and PrayerTimesPage: geolocation, reverse geocoding, timings *)

\* most timings (and Hijri) requests of one page in flight at a time
MaxInFlight == 2

MaxGeoRequests == 2

\* minutes by which a run of the interval callback can be late
MaxLate == 1

\* the session is followed from a little before midnight until the minute
\* by which a late check must have run
StartClock == [day |-> 1, hours |-> 23, minutes |-> 58]

LastMinute == MaxLate + 1

\* the clock one minute later
NextMinute(c) ==
  IF c.minutes < 59 THEN [c EXCEPT !.minutes = @ + 1]
  ELSE IF c.hours < 23 THEN [c EXCEPT !.hours = @ + 1, !.minutes = 0]
  ELSE [day |-> c.day + 1, hours |-> 0, minutes |-> 0]

Positions == { [lat |-> -6, lng |-> 107], [lat |-> 35, lng |-> 139] }

\* parsed bodies the reverse-geocoding service may answer with
PageGeoBodies ==
  LET Addr(c, k, st) ==
        Some([city |-> c, town |-> NULL, village |-> NULL, county |-> k,
              state |-> st])
  IN { [address |-> Addr(Some(<<"C">>), Some(<<"K">>), Some(<<"S">>)),
        display_name |-> Some(<<"a", ",", "b">>)],
       [address |-> Addr(NULL, Some(<<"K">>), Some(<<"S">>)),
        display_name |-> Some(<<"a", ",", "b">>)],
       [address |-> Addr(NULL, NULL, NULL),
        display_name |-> Some(<<"a", ",", "b">>)],
       [address |-> NULL, display_name |-> NULL] }

\* ways a fetch can fail before its body is used
TransportFailures == {"network", "http", "parse"}

PageTimings ==
  { Timings([hours |-> 4,  minutes |-> 37], [hours |-> 12, minutes |-> 3],
            [hours |-> 15, minutes |-> 24], [hours |-> 17, minutes |-> 59],
            [hours |-> 19, minutes |-> 9]),
    Timings([hours |-> 4,  minutes |-> 37], [hours |-> 12, minutes |-> 3],
            [hours |-> 15, minutes |-> 24], [hours |-> 19, minutes |-> 9],
            [hours |-> 19, minutes |-> 9]) }

\* data.hijri of the conversion service
HijriBodies ==
  { [day |-> <<"1", "9">>, month |-> [number |-> 12, en |-> "Dhu al-Hijjah"],
     year |-> <<"1", "4", "4", "6">>, weekday |-> [en |-> "Al Ahad"]],
    [day |-> <<"2", "0">>, month |-> [number |-> 12, en |-> "Dhu al-Hijjah"],
     year |-> <<"1", "4", "4", "6">>, weekday |-> [en |-> "Al Athnayn"]] }

\* the HijriDate record built from data.hijri
HijriDateOf(hijri) ==
  [ day |-> ToNumber(hijri.day), month |-> hijri.month.number,
    year |-> ToNumber(hijri.year), monthName |-> hijri.month.en,
    weekday |-> hijri.weekday.en ]

\* HomePage: the useState initial values
HomeInitial ==
  [ locationAllowed |-> NULL, coords |-> NULL, locationName |-> NULL,
    isLoading |-> TRUE, isReverseGeocoding |-> FALSE, hijriDate |-> NULL,
    hijriLoading |-> TRUE, prayerTimes |-> <<>> ]

\* HomePage: nothing in flight.  reverseDone and timingsDone hold how the
\* latest settled reverseGeocode / fetchPrayerTimes call of this mount ended,
\* interval counts the active midnight intervals,
\* geoRequests counts the getCurrentPosition calls of this mount, sinceTick
\* the minutes since the interval was created or its callback last ran,
\* timingsIssued the fetchPrayerTimes calls of this mount and timingsDay the
\* day the latest of them asked for, reverseBody and timingsBody the body of
\* the latest settled call if it succeeded
NoHomeReq ==
  [geolocation |-> 0, reverse |-> 0, timings |-> 0, hijri |-> 0,
   interval |-> 0, reverseDone |-> "none", timingsDone |-> "none",
   geoRequests |-> 0, sinceTick |-> 0, timingsDay |-> 0, timingsIssued |-> 0,
   reverseBody |-> NULL, timingsBody |-> NULL]

\* the effect on [coords] run again without clearing the old interval
ReplacedInterval_noClear(n) == n + 1

\* the effect on [coords] run again: the cleanup clears the interval that
\* is active, then setInterval creates one
ReplacedInterval(n) == (n - 1) + 1

\* HomePage: in-flight work after its first render and mount effects
\* (geolocation request, fetchHijriDate, the midnight interval)
HomeMountedReq ==
  [ NoHomeReq EXCEPT !.geolocation = IF hasGeolocation THEN 1 ELSE 0,
                     !.geoRequests = IF hasGeolocation THEN 1 ELSE 0,
                     !.hijri = 1, !.interval = 1 ]

\* PrayerTimesPage: the useState initial values
JadwalInitial ==
  [ coords |-> NULL, locationName |-> NULL, prayerTimes |-> NULL,
    isLoading |-> TRUE, error |-> NULL, isLocationLoading |-> TRUE,
    isReverseGeocoding |-> FALSE ]

NoJadwalReq ==
  [geolocation |-> 0, reverse |-> 0, timings |-> 0,
   reverseDone |-> "none", timingsDone |-> "none",
   timingsDay |-> 0, timingsIssued |-> 0,
   reverseBody |-> NULL, timingsBody |-> NULL, timingsMessage |-> NULL]

\* PrayerTimesPage after its first render and the geolocation effect
JadwalMountedState ==
  IF hasGeolocation
    THEN JadwalInitial
    ELSE [JadwalInitial EXCEPT
            !.error = Some("Geolocation tidak didukung oleh browser Anda"),
            !.isLocationLoading = FALSE,
            !.isLoading = FALSE]

JadwalMountedReq ==
  [NoJadwalReq EXCEPT !.geolocation = IF hasGeolocation THEN 1 ELSE 0]

InitPages ==
  /\ clock = StartClock
  /\ hasGeolocation \in BOOLEAN
  /\ route \in {"home", "jadwal"}
  /\ home = HomeInitial
  /\ homeReq = IF route = "home" THEN HomeMountedReq ELSE NoHomeReq
  /\ jadwal = IF route = "jadwal" THEN JadwalMountedState ELSE JadwalInitial
  /\ jadwalReq = IF route = "jadwal" THEN JadwalMountedReq ELSE NoJadwalReq

IdlePages ==
  /\ clock = StartClock
  /\ hasGeolocation = TRUE
  /\ route = "none"
  /\ home = HomeInitial
  /\ homeReq = NoHomeReq
  /\ jadwal = JadwalInitial
  /\ jadwalReq = NoJadwalReq

\* ---- HomePage ----

\* the success callback without setLocationAllowed(true)
HomeGeoSuccess_noAllowed ==
  /\ route = "home" /\ homeReq.geolocation = 1
  /\ \E pos \in Positions :
       home' = [home EXCEPT !.coords = Some(pos),
                            !.isReverseGeocoding = TRUE]
  /\ homeReq' = [homeReq EXCEPT !.geolocation = 0,
                                !.reverse = @ + 1,
                                !.timings = @ + 1,
                                !.timingsIssued = @ + 1,
                                !.timingsDay = clock.day,
                                !.sinceTick = 0,
                                !.interval = ReplacedInterval(@),
                                !.reverseDone = "none"]
  /\ UNCHANGED <<clock, route, hasGeolocation, jadwal, jadwalReq>>
  /\ UNCHANGED OtherThanPages

\* getCurrentPosition success callback: both fetches are started, and the
\* effect on [coords] replaces the interval by a new one
HomeGeoSuccess ==
  /\ route = "home" /\ homeReq.geolocation = 1
  /\ \E pos \in Positions :
       home' = [home EXCEPT !.locationAllowed = Some(TRUE),
                            !.coords = Some(pos),
                            !.isReverseGeocoding = TRUE]
  /\ homeReq' = [homeReq EXCEPT !.geolocation = 0,
                                !.reverse = @ + 1,
                                !.timings = @ + 1,
                                !.timingsIssued = @ + 1,
                                !.timingsDay = clock.day,
                                !.sinceTick = 0,
                                !.interval = ReplacedInterval(@),
                                !.reverseDone = "none"]
  /\ UNCHANGED <<clock, route, hasGeolocation, jadwal, jadwalReq>>
  /\ UNCHANGED OtherThanPages

\* the error callback asking for the position again by itself
HomeGeoError_autoRetry ==
  /\ route = "home" /\ homeReq.geolocation = 1
  /\ homeReq.geoRequests < MaxGeoRequests
  /\ home' = [home EXCEPT !.locationAllowed = Some(FALSE),
                          !.locationName = NULL,
                          !.isLoading = FALSE]
  /\ homeReq' = [homeReq EXCEPT !.geoRequests = @ + 1]
  /\ UNCHANGED <<clock, route, hasGeolocation, jadwal, jadwalReq>>
  /\ UNCHANGED OtherThanPages

\* getCurrentPosition error callback
HomeGeoError ==
  /\ route = "home" /\ homeReq.geolocation = 1
  /\ home' = [home EXCEPT !.locationAllowed = Some(FALSE),
                          !.locationName = NULL,
                          !.isLoading = FALSE]
  /\ homeReq' = [homeReq EXCEPT !.geolocation = 0]
  /\ UNCHANGED <<clock, route, hasGeolocation, jadwal, jadwalReq>>
  /\ UNCHANGED OtherThanPages

\* reverseGeocode: the response is ok and its body parses
HomeReverseGeocodeOk ==
  /\ route = "home" /\ homeReq.reverse > 0
  /\ \E data \in PageGeoBodies :
       /\ home' = [home EXCEPT !.locationName = Some(HomeLocationName(data)),
                               !.isReverseGeocoding = FALSE]
       /\ homeReq' = [homeReq EXCEPT !.reverse = @ - 1, !.reverseDone = "ok",
                                     !.reverseBody = Some(data)]
  /\ UNCHANGED <<clock, route, hasGeolocation, jadwal, jadwalReq>>
  /\ UNCHANGED OtherThanPages

\* the catch block without setLocationName
HomeReverseGeocodeFail_noName ==
  /\ route = "home" /\ homeReq.reverse > 0
  /\ \E why \in TransportFailures :
       home' = [home EXCEPT !.isReverseGeocoding = FALSE]
  /\ homeReq' = [homeReq EXCEPT !.reverse = @ - 1, !.reverseDone = "failed",
                                !.reverseBody = NULL]
  /\ UNCHANGED <<clock, route, hasGeolocation, jadwal, jadwalReq>>
  /\ UNCHANGED OtherThanPages

\* reverseGeocode: fetch rejects, status is not ok, or the body does not parse
HomeReverseGeocodeFail ==
  /\ route = "home" /\ homeReq.reverse > 0
  /\ \E why \in TransportFailures :
       home' = [home EXCEPT !.locationName = Some(Unknown),
                            !.isReverseGeocoding = FALSE]
  /\ homeReq' = [homeReq EXCEPT !.reverse = @ - 1, !.reverseDone = "failed",
                                !.reverseBody = NULL]
  /\ UNCHANGED <<clock, route, hasGeolocation, jadwal, jadwalReq>>
  /\ UNCHANGED OtherThanPages

\* fetchPrayerTimes: the response is ok and carries data.timings
HomeTimingsOk ==
  /\ route = "home" /\ homeReq.timings > 0
  /\ \E t \in PageTimings :
       /\ home' = [home EXCEPT !.prayerTimes = FormattedPrayerTimes(t),
                               !.isLoading = FALSE]
       /\ homeReq' = [homeReq EXCEPT !.timings = @ - 1, !.timingsDone = "ok",
                                     !.timingsBody = Some(t)]
  /\ UNCHANGED <<clock, route, hasGeolocation, jadwal, jadwalReq>>
  /\ UNCHANGED OtherThanPages

\* the catch block also forgetting the place name
HomeTimingsFail_dropsName ==
  /\ route = "home" /\ homeReq.timings > 0
  /\ home' = [home EXCEPT !.isLoading = FALSE, !.locationName = NULL]
  /\ homeReq' = [homeReq EXCEPT !.timings = @ - 1, !.timingsDone = "failed",
                                !.timingsBody = NULL]
  /\ UNCHANGED <<clock, route, hasGeolocation, jadwal, jadwalReq>>
  /\ UNCHANGED OtherThanPages

\* fetchPrayerTimes: any failure, or a body without data.timings
HomeTimingsFail ==
  /\ route = "home" /\ homeReq.timings > 0
  /\ home' = [home EXCEPT !.isLoading = FALSE]
  /\ homeReq' = [homeReq EXCEPT !.timings = @ - 1, !.timingsDone = "failed",
                                !.timingsBody = NULL]
  /\ UNCHANGED <<clock, route, hasGeolocation, jadwal, jadwalReq>>
  /\ UNCHANGED OtherThanPages

\* fetchHijriDate: response ok with code 200
HomeHijriOk ==
  /\ route = "home" /\ homeReq.hijri > 0
  /\ \E h \in HijriBodies :
       home' = [home EXCEPT !.hijriDate = Some(HijriDateOf(h)),
                            !.hijriLoading = FALSE]
  /\ homeReq' = [homeReq EXCEPT !.hijri = @ - 1]
  /\ UNCHANGED <<clock, route, hasGeolocation, jadwal, jadwalReq>>
  /\ UNCHANGED OtherThanPages

\* fetchHijriDate: any failure, or a code other than 200
HomeHijriFail ==
  /\ route = "home" /\ homeReq.hijri > 0
  /\ home' = [home EXCEPT !.hijriLoading = FALSE]
  /\ homeReq' = [homeReq EXCEPT !.hijri = @ - 1]
  /\ UNCHANGED <<clock, route, hasGeolocation, jadwal, jadwalReq>>
  /\ UNCHANGED OtherThanPages

\* a run of the interval callback, a minute or more after the previous one:
\* both fetches are started if the clock shows 00:00 and coords is set
HomeMidnightCheck ==
  /\ route = "home" /\ homeReq.interval > 0
  /\ homeReq.sinceTick >= 1
  /\ IF clock.hours = 0 /\ clock.minutes = 0 /\ home.coords # NULL
       THEN /\ home' = [home EXCEPT !.hijriLoading = TRUE]
            /\ homeReq' = [homeReq EXCEPT !.timings = @ + 1,
                                          !.timingsIssued = @ + 1,
                                          !.timingsDay = clock.day,
                                          !.hijri = @ + 1,
                                          !.sinceTick = 0]
       ELSE /\ home' = home
            /\ homeReq' = [homeReq EXCEPT !.sinceTick = 0]
  /\ UNCHANGED <<clock, route, hasGeolocation, jadwal, jadwalReq>>
  /\ UNCHANGED OtherThanPages

\* a minute passes; the interval callback of a mounted HomePage is run at
\* the latest MaxLate minutes after it is due
ClockAdvance ==
  /\ clock.hours = 0 => clock.minutes < LastMinute
  /\ route = "home" => homeReq.sinceTick <= MaxLate
  /\ clock' = NextMinute(clock)
  /\ homeReq' = IF route = "home"
                  THEN [homeReq EXCEPT !.sinceTick = @ + 1]
                  ELSE homeReq
  /\ UNCHANGED <<route, hasGeolocation, home, jadwal, jadwalReq>>
  /\ UNCHANGED OtherThanPages

\* the "Coba Lagi" button of the denied state, and the geolocation effect
\* that runs again because locationAllowed is null
handleRetryLocation ==
  /\ route = "home" /\ home.locationAllowed = Some(FALSE)
  /\ homeReq.geoRequests < MaxGeoRequests
  /\ home' = [home EXCEPT !.locationAllowed = NULL,
                          !.locationName = NULL,
                          !.coords = NULL,
                          !.prayerTimes = <<>>,
                          !.isLoading = IF hasGeolocation THEN TRUE ELSE @]
  /\ homeReq' = [homeReq EXCEPT
                   !.geolocation = IF hasGeolocation THEN 1 ELSE 0,
                   !.geoRequests = IF hasGeolocation THEN @ + 1 ELSE @,
                   !.reverseDone = "none", !.timingsDone = "none",
                   !.reverseBody = NULL, !.timingsBody = NULL]
  /\ UNCHANGED <<clock, route, hasGeolocation, jadwal, jadwalReq>>
  /\ UNCHANGED OtherThanPages

\* ---- PrayerTimesPage ----

\* getCurrentPosition success callback, then the effect on [coords]
JadwalGeoSuccess ==
  /\ route = "jadwal" /\ jadwalReq.geolocation = 1
  /\ \E pos \in Positions :
       jadwal' = [jadwal EXCEPT !.coords = Some(pos),
                                !.isLocationLoading = FALSE,
                                !.isReverseGeocoding = TRUE,
                                !.isLoading = TRUE,
                                !.error = NULL]
  /\ jadwalReq' = [jadwalReq EXCEPT !.geolocation = 0,
                                    !.reverse = @ + 1,
                                    !.timings = @ + 1,
                                    !.timingsIssued = @ + 1,
                                    !.timingsDay = clock.day]
  /\ UNCHANGED <<clock, route, hasGeolocation, home, homeReq>>
  /\ UNCHANGED OtherThanPages

LocationDeniedMessage ==
  "Gagal mendapatkan lokasi. Izinkan akses lokasi untuk melihat jadwal sholat."

LocationFailedMessage == "Gagal mendapatkan lokasi. Silakan coba lagi."

\* getCurrentPosition error callback
JadwalGeoError ==
  /\ route = "jadwal" /\ jadwalReq.geolocation = 1
  /\ \E denied \in BOOLEAN :
       jadwal' = [jadwal EXCEPT
                    !.error = Some(IF denied THEN LocationDeniedMessage
                                             ELSE LocationFailedMessage),
                    !.isLocationLoading = FALSE,
                    !.isLoading = FALSE]
  /\ jadwalReq' = [jadwalReq EXCEPT !.geolocation = 0]
  /\ UNCHANGED <<clock, route, hasGeolocation, home, homeReq>>
  /\ UNCHANGED OtherThanPages

JadwalReverseGeocodeOk ==
  /\ route = "jadwal" /\ jadwalReq.reverse > 0
  /\ \E data \in PageGeoBodies :
       /\ jadwal' = [jadwal EXCEPT
                       !.locationName = Some(JadwalLocationName(data)),
                       !.isReverseGeocoding = FALSE]
       /\ jadwalReq' = [jadwalReq EXCEPT !.reverse = @ - 1,
                                         !.reverseDone = "ok",
                                         !.reverseBody = Some(data)]
  /\ UNCHANGED <<clock, route, hasGeolocation, home, homeReq>>
  /\ UNCHANGED OtherThanPages

JadwalReverseGeocodeFail ==
  /\ route = "jadwal" /\ jadwalReq.reverse > 0
  /\ \E why \in TransportFailures :
       jadwal' = [jadwal EXCEPT !.locationName = Some(Unknown),
                                !.isReverseGeocoding = FALSE]
  /\ jadwalReq' = [jadwalReq EXCEPT !.reverse = @ - 1,
                                    !.reverseDone = "failed",
                                    !.reverseBody = NULL]
  /\ UNCHANGED <<clock, route, hasGeolocation, home, homeReq>>
  /\ UNCHANGED OtherThanPages

\* fetchPrayerTimes: response ok, code 200
JadwalTimingsOk ==
  /\ route = "jadwal" /\ jadwalReq.timings > 0
  /\ \E t \in PageTimings :
       /\ jadwal' = [jadwal EXCEPT
                       !.prayerTimes = Some(PrayerTimesRecord(t, ResponseDate)),
                       !.isLoading = FALSE]
       /\ jadwalReq' = [jadwalReq EXCEPT !.timings = @ - 1,
                                         !.timingsDone = "ok",
                                         !.timingsBody = Some(t)]
  /\ UNCHANGED <<clock, route, hasGeolocation, home, homeReq>>
  /\ UNCHANGED OtherThanPages

\* err.message of the failures of PrayerTimesPage.fetchPrayerTimes
TimingsErrorMessages ==
  { "Failed to fetch",                     \* fetch rejected
    "HTTP error! status: 500",             \* !response.ok
    "Unexpected token < in JSON",          \* response.json() rejected
    "Invalid latitude",                    \* code # 200, result.data a string
    "Gagal memuat jadwal sholat",          \* code # 200, result.data empty
    "Gagal memuat jadwal sholat. Silakan coba lagi." }  \* empty err.message

JadwalTimingsFail ==
  /\ route = "jadwal" /\ jadwalReq.timings > 0
  /\ \E msg \in TimingsErrorMessages :
       /\ jadwal' = [jadwal EXCEPT !.error = Some(msg), !.isLoading = FALSE]
       /\ jadwalReq' = [jadwalReq EXCEPT !.timings = @ - 1,
                                         !.timingsDone = "failed",
                                         !.timingsBody = NULL,
                                         !.timingsMessage = Some(msg)]
  /\ UNCHANGED <<clock, route, hasGeolocation, home, homeReq>>
  /\ UNCHANGED OtherThanPages

\* "Coba Lagi" of the error panel: window.location.reload()
JadwalReload ==
  /\ route = "jadwal" /\ jadwal.error # NULL
  /\ jadwal' = JadwalMountedState
  /\ jadwalReq' = JadwalMountedReq
  /\ UNCHANGED <<clock, route, hasGeolocation, home, homeReq>>
  /\ UNCHANGED OtherThanPages

\* ---- router ----

\* bottom navigation: the shown page is unmounted, the other one mounted
Navigate ==
  /\ route \in {"home", "jadwal"}
  /\ route' = IF route = "home" THEN "jadwal" ELSE "home"
  /\ UNCHANGED <<clock, hasGeolocation>>
  /\ home' = HomeInitial
  /\ homeReq' = IF route = "jadwal" THEN HomeMountedReq ELSE NoHomeReq
  /\ jadwal' = IF route = "home" THEN JadwalMountedState ELSE JadwalInitial
  /\ jadwalReq' = IF route = "home" THEN JadwalMountedReq ELSE NoJadwalReq
  /\ UNCHANGED OtherThanPages

NextPages ==
  \/ HomeGeoSuccess \/ HomeGeoError
  \/ HomeReverseGeocodeOk \/ HomeReverseGeocodeFail
  \/ HomeTimingsOk \/ HomeTimingsFail
  \/ HomeHijriOk \/ HomeHijriFail
  \/ HomeMidnightCheck \/ handleRetryLocation
  \/ JadwalGeoSuccess \/ JadwalGeoError
  \/ JadwalReverseGeocodeOk \/ JadwalReverseGeocodeFail
  \/ JadwalTimingsOk \/ JadwalTimingsFail
  \/ JadwalReload \/ Navigate
  \/ ClockAdvance

----------------------------------------------------------------------------
(* Chapter-list search: QuranCardPage, TafsirPage and the QuranCard dialog *)

MaxQueryLen == 2

\* characters a search term is typed from: letters in both cases, digits, blank
Alphabet == {"a", "A", "1", "2", " "}

\* the values e.target.value of the search inputs can take
Queries == UNION { [1..n -> Alphabet] : n \in 0..MaxQueryLen }

\* String.prototype.toLowerCase
LowerChar(c) ==
  CASE c = "A" -> "a"
    [] c = "B" -> "b"
    [] OTHER -> c

ToLowerCase(s) == [i \in 1..Len(s) |-> LowerChar(s[i])]

\* String.prototype.includes
Includes(s, t) ==
  \E i \in 0..(Len(s) - Len(t)) : SubSeq(s, i + 1, i + Len(t)) = t

\* String.prototype.trim
RECURSIVE TrimStart(_)
TrimStart(s) ==
  IF s # <<>> /\ Head(s) = " " THEN TrimStart(Tail(s)) ELSE s

RECURSIVE TrimEnd(_)
TrimEnd(s) ==
  IF s # <<>> /\ s[Len(s)] = " "
    THEN TrimEnd(SubSeq(s, 1, Len(s) - 1))
    ELSE s

Trim(s) == TrimEnd(TrimStart(s))

\* Number.prototype.toString and String(n) of a positive integer
RECURSIVE NumberToString(_)
NumberToString(n) ==
  IF n < 10 THEN <<DigitChar(n)>>
  ELSE NumberToString(n \div 10) \o <<DigitChar(n % 10)>>

\* QuranCardPage: the filtered memo
QuranFiltered(list, query) ==
  LET q == ToLowerCase(Trim(query))
      items == IF list = NULL THEN <<>> ELSE list[1]
      Test(s) ==
        \E v \in { ToLowerCase(s.transliteration), ToLowerCase(s.translation),
                   s.arabicName, NumberToString(s.number) } :
          Includes(ToLowerCase(v), q)
  IN IF q = <<>> THEN items ELSE SelectSeq(items, Test)

\* TafsirPage: the effect that sets filteredSurah, with the search term
\* compared as typed
TafsirFiltered_asTyped(surahList, searchTerm) ==
  LET Test(surah) ==
        \/ Includes(ToLowerCase(surah.namaLatin), searchTerm)
        \/ Includes(ToLowerCase(surah.arti), searchTerm)
        \/ Includes(NumberToString(surah.nomor), searchTerm)
  IN IF searchTerm # <<>> /\ Len(surahList) > 0
       THEN SelectSeq(surahList, Test)
       ELSE surahList

\* TafsirPage: the effect that sets filteredSurah
TafsirFiltered(surahList, searchTerm) ==
  LET Test(surah) ==
        \/ Includes(ToLowerCase(surah.namaLatin), ToLowerCase(searchTerm))
        \/ Includes(ToLowerCase(surah.arti), ToLowerCase(searchTerm))
        \/ Includes(NumberToString(surah.nomor), searchTerm)
  IN IF searchTerm # <<>> /\ Len(surahList) > 0
       THEN SelectSeq(surahList, Test)
       ELSE surahList

\* QuranCard: the filteredSurah memo
CardFiltered(surah, searchQuery) ==
  LET Test(s) ==
        \/ Includes(ToLowerCase(s.name_latin), ToLowerCase(searchQuery))
        \/ Includes(ToLowerCase(s.translation), ToLowerCase(searchQuery))
        \/ Includes(NumberToString(s.number), searchQuery)
  IN SelectSeq(surah, Test)

\* chapters as the list service describes them: number, name in Arabic
\* script ("#" stands for a letter of that script), transliterated name,
\* translated meaning
ChapterData ==
  << <<1,  <<"#">>,      <<"A", "b">>,      <<"b", " ", "a">>>>,
     <<2,  <<"#", "#">>, <<"B", "a">>,      <<"a", "B">>>>,
     <<12, <<"#">>,      <<"b", "B">>,      <<"A">>>>,
     <<21, <<>>,         <<"A", "2", "a">>, <<"b", "b">>>> >>

\* orders in which a response lists them
ChapterOrders == { <<>>, <<1, 2, 3, 4>>, <<4, 1, 3>> }

\* data of the response as useSurahList and TafsirPage read it
ApiSurahList(order) ==
  [i \in 1..Len(order) |->
     LET c == ChapterData[order[i]]
     IN [nomor |-> c[1], nama |-> c[2], namaLatin |-> c[3], arti |-> c[4]]]

ApiLists == { ApiSurahList(o) : o \in ChapterOrders }

\* data of the response as QuranCard reads it (type Surah)
CardSurahList(order) ==
  [i \in 1..Len(order) |->
     LET c == ChapterData[order[i]]
     IN [number |-> c[1], name |-> c[2], name_latin |-> c[3],
         translation |-> c[4]]]

CardLists == { CardSurahList(o) : o \in ChapterOrders }

\* useSurahList: json.data.map(...); it.nama || "" of a string is that string
MappedList(data) ==
  [i \in 1..Len(data) |->
     [number |-> data[i].nomor,
      arabicName |-> data[i].nama,
      transliteration |-> data[i].namaLatin,
      translation |-> data[i].arti]]

\* messages useSurahList can end with
ListErrorMessages == {"Gagal memuat surat", "Failed to fetch"}

\* QuranCardPage: useState initial values (filtered is the memo's value)
QuranInitial ==
  [list |-> NULL, isLoading |-> TRUE, error |-> NULL,
   query |-> <<>>, filtered |-> <<>>]

\* useSurahList.load up to its first await: the cached list is used if present
QuranMounted(cache) ==
  IF cache # NULL
    THEN [QuranInitial EXCEPT !.list = cache, !.isLoading = FALSE,
                              !.filtered = QuranFiltered(cache, <<>>)]
    ELSE QuranInitial

\* TafsirPage: useState initial values
TafsirInitial ==
  [surahList |-> <<>>, listLoading |-> TRUE,
   searchTerm |-> <<>>, filteredSurah |-> <<>>]

\* QuranCard: useState initial values (filteredSurah is the memo's value)
CardInitial ==
  [isListOpen |-> FALSE, loadingList |-> FALSE, surah |-> <<>>,
   searchQuery |-> <<>>, filteredSurah |-> <<>>]

ListViews == {"quran", "tafsir", "card"}

\* requests the mount effects of view v issue
MountRequests(v, cache) ==
  IF (v = "quran" /\ cache = NULL) \/ v = "tafsir" THEN 1 ELSE 0

InitLists ==
  /\ listView \in ListViews
  /\ sessionCache = NULL
  /\ listReq = MountRequests(listView, sessionCache)
  /\ listFetched = {}
  /\ quranPage = QuranInitial
  /\ tafsirPage = TafsirInitial
  /\ card = CardInitial

IdleLists ==
  /\ listView = "none"
  /\ sessionCache = NULL
  /\ listReq = 0
  /\ listFetched = {}
  /\ quranPage = QuranInitial
  /\ tafsirPage = TafsirInitial
  /\ card = CardInitial

\* the router replaces the mounted view by view v; responses to the requests
\* of the old view no longer change anything
OpenListView(v) ==
  /\ v # listView
  /\ listView' = v
  /\ listReq' = MountRequests(v, sessionCache)
  /\ quranPage' = IF v = "quran" THEN QuranMounted(sessionCache)
                  ELSE QuranInitial
  /\ tafsirPage' = TafsirInitial
  /\ card' = CardInitial
  /\ UNCHANGED sessionCache
  /\ UNCHANGED listFetched
  /\ UNCHANGED OtherThanLists

\* useSurahList.load: the response arrives with code 200
QuranListOk(data) ==
  /\ listView = "quran"
  /\ listReq > 0
  /\ LET mapped == Some(MappedList(data))
     IN /\ quranPage' = [quranPage EXCEPT
                           !.list = mapped, !.isLoading = FALSE,
                           !.filtered = QuranFiltered(mapped, quranPage.query)]
        /\ sessionCache' = mapped
  /\ listReq' = listReq - 1
  /\ UNCHANGED <<listView, tafsirPage, card>>
  /\ listFetched' = listFetched \cup {"quran"}
  /\ UNCHANGED OtherThanLists

\* useSurahList.load: fetch or json() throws, or the code is not 200
QuranListFail(message) ==
  /\ listView = "quran"
  /\ listReq > 0
  /\ quranPage' = [quranPage EXCEPT !.error = Some(message),
                                    !.isLoading = FALSE]
  /\ listReq' = listReq - 1
  /\ UNCHANGED <<listView, sessionCache, tafsirPage, card>>
  /\ UNCHANGED listFetched
  /\ UNCHANGED OtherThanLists

\* QuranCardPage: onChange of the search input
setQuery(q) ==
  /\ listView = "quran"
  /\ quranPage' = [quranPage EXCEPT
                     !.query = q,
                     !.filtered = QuranFiltered(quranPage.list, q)]
  /\ UNCHANGED <<listView, listReq, sessionCache, tafsirPage, card>>
  /\ UNCHANGED listFetched
  /\ UNCHANGED OtherThanLists

\* TafsirPage.fetchSurahList: the response arrives with an OK status; the
\* effect on [searchTerm, surahList] then sets filteredSurah
TafsirListOk(data) ==
  /\ listView = "tafsir"
  /\ listReq > 0
  /\ tafsirPage' = [tafsirPage EXCEPT
                      !.surahList = data, !.listLoading = FALSE,
                      !.filteredSurah =
                         TafsirFiltered(data, tafsirPage.searchTerm)]
  /\ listReq' = listReq - 1
  /\ UNCHANGED <<listView, sessionCache, quranPage, card>>
  /\ listFetched' = listFetched \cup {"tafsir"}
  /\ UNCHANGED OtherThanLists

\* TafsirPage.fetchSurahList: fetch throws or the status is not OK
TafsirListFail ==
  /\ listView = "tafsir"
  /\ listReq > 0
  /\ tafsirPage' = [tafsirPage EXCEPT !.listLoading = FALSE]
  /\ listReq' = listReq - 1
  /\ UNCHANGED <<listView, sessionCache, quranPage, card>>
  /\ UNCHANGED listFetched
  /\ UNCHANGED OtherThanLists

\* TafsirPage.handleSearch, followed by the effect on [searchTerm, surahList]
handleSearch(q) ==
  /\ listView = "tafsir"
  /\ tafsirPage' = [tafsirPage EXCEPT
                      !.searchTerm = q,
                      !.filteredSurah =
                         TafsirFiltered(tafsirPage.surahList, q)]
  /\ UNCHANGED <<listView, listReq, sessionCache, quranPage, card>>
  /\ UNCHANGED listFetched
  /\ UNCHANGED OtherThanLists

\* QuranCard: the trigger button; the effect on [isListOpen, surah.length]
\* fetches the list while none has been stored
CardOpenList ==
  /\ listView = "card"
  /\ ~card.isListOpen
  /\ IF Len(card.surah) > 0
       THEN /\ card' = [card EXCEPT !.isListOpen = TRUE]
            /\ UNCHANGED listReq
       ELSE /\ listReq < MaxInFlight
            /\ card' = [card EXCEPT !.isListOpen = TRUE,
                                    !.loadingList = TRUE]
            /\ listReq' = listReq + 1
  /\ UNCHANGED <<listView, sessionCache, quranPage, tafsirPage>>
  /\ UNCHANGED listFetched
  /\ UNCHANGED OtherThanLists

\* QuranCard: the close button of the list dialog, or Escape
CardCloseList ==
  /\ listView = "card"
  /\ card.isListOpen
  /\ card' = [card EXCEPT !.isListOpen = FALSE]
  /\ UNCHANGED <<listView, listReq, sessionCache, quranPage, tafsirPage>>
  /\ UNCHANGED listFetched
  /\ UNCHANGED OtherThanLists

\* QuranCard.fetchSurah: the response arrives
CardListOk(data) ==
  /\ listView = "card"
  /\ listReq > 0
  /\ card' = [card EXCEPT
                !.surah = data, !.loadingList = FALSE,
                !.filteredSurah = CardFiltered(data, card.searchQuery)]
  /\ listReq' = listReq - 1
  /\ UNCHANGED <<listView, sessionCache, quranPage, tafsirPage>>
  /\ listFetched' = listFetched \cup {"card"}
  /\ UNCHANGED OtherThanLists

\* QuranCard.fetchSurah: fetch or json() throws
CardListFail ==
  /\ listView = "card"
  /\ listReq > 0
  /\ card' = [card EXCEPT !.loadingList = FALSE]
  /\ listReq' = listReq - 1
  /\ UNCHANGED <<listView, sessionCache, quranPage, tafsirPage>>
  /\ UNCHANGED listFetched
  /\ UNCHANGED OtherThanLists

\* QuranCard: onChange of the search input of the list dialog
setSearchQuery(q) ==
  /\ listView = "card"
  /\ card.isListOpen
  /\ card' = [card EXCEPT
                !.searchQuery = q,
                !.filteredSurah = CardFiltered(card.surah, q)]
  /\ UNCHANGED <<listView, listReq, sessionCache, quranPage, tafsirPage>>
  /\ UNCHANGED listFetched
  /\ UNCHANGED OtherThanLists

NextLists ==
  \/ \E v \in ListViews : OpenListView(v)
  \/ \E data \in ApiLists : QuranListOk(data) \/ TafsirListOk(data)
  \/ \E message \in ListErrorMessages : QuranListFail(message)
  \/ TafsirListFail
  \/ \E q \in Queries : setQuery(q) \/ handleSearch(q) \/ setSearchQuery(q)
  \/ CardOpenList \/ CardCloseList
  \/ \E data \in CardLists : CardListOk(data)
  \/ CardListFail

----------------------------------------------------------------------------
(* SettingsPage and useDarkMode *)

\* String(b) and b.toString() of a boolean
BoolToString(b) == IF b THEN "true" ELSE "false"

\* what localStorage can hold when the page is opened: nothing, values the
\* page wrote earlier, values nothing in the page writes; a darkMode item
\* found there is taken for a preference set by hand
StoredStates ==
  [darkMode      : {NULL, Some("true"), Some("false"), Some("1")},
   notifications : {NULL, Some("false"), Some("no")},
   autoPlay      : {NULL, Some("true"), Some("yes")},
   fontSize      : {NULL, Some(""), Some("besar"), Some("huge")}]

FontSizes == {"kecil", "medium", "besar"}

\* the initializer of useState in useDarkMode
InitialIsDarkMode(st, sys) ==
  IF st.darkMode # NULL THEN st.darkMode[1] = "true" ELSE sys

\* the font size in pixels set on the root element
FontSizePx(size) ==
  IF size = "kecil" THEN "14px" ELSE IF size = "besar" THEN "18px" ELSE "16px"

\* SettingsPage after its first render and the effect that loads the settings
MountedSettings(st, sys) ==
  [isDarkMode    |-> InitialIsDarkMode(st, sys),
   notifications |-> st.notifications # Some("false"),
   autoPlay      |-> st.autoPlay = Some("true"),
   fontSize      |-> IF st.fontSize # NULL /\ st.fontSize[1] # ""
                       THEN st.fontSize[1] ELSE "medium"]

\* the part of the state useDarkMode reads and writes
DarkState ==
  [isDarkMode |-> settings[1].isDarkMode, storage |-> storage,
   rootDark |-> rootDark]

\* toggleDarkMode with an effect that only sets the class
ToggleResult_classOnly(s, enabled) ==
  IF enabled = s.isDarkMode THEN s
  ELSE [isDarkMode |-> enabled, storage |-> s.storage, rootDark |-> enabled]

\* toggleDarkMode(enabled) and, when isDarkMode changed, the effect that
\* sets the class and stores the value
ToggleResult(s, enabled) ==
  IF enabled = s.isDarkMode THEN s
  ELSE [isDarkMode |-> enabled,
        storage |-> [s.storage EXCEPT !.darkMode = Some(BoolToString(enabled))],
        rootDark |-> enabled]

InitSettings ==
  /\ storage \in StoredStates
  /\ systemDark \in BOOLEAN
  /\ rootDark = FALSE
  /\ rootFontSize = ""
  /\ settings = NULL
  /\ darkToggled = NULL
  /\ manualDark = (storage.darkMode # NULL)

IdleSettings ==
  /\ storage = [darkMode |-> NULL, notifications |-> NULL,
                autoPlay |-> NULL, fontSize |-> NULL]
  /\ systemDark = FALSE
  /\ rootDark = FALSE
  /\ rootFontSize = ""
  /\ settings = NULL
  /\ darkToggled = NULL
  /\ manualDark = FALSE

\* the page is opened: first render and the mount effects
MountSettings ==
  /\ settings = NULL
  /\ LET s == MountedSettings(storage, systemDark)
     IN /\ settings' = Some(s)
        /\ rootDark' = s.isDarkMode
        /\ storage' = [storage EXCEPT
                         !.darkMode = Some(BoolToString(s.isDarkMode))]
        /\ rootFontSize' = FontSizePx(s.fontSize)
  /\ darkToggled' = NULL
  /\ UNCHANGED systemDark
  /\ UNCHANGED manualDark
  /\ UNCHANGED OtherThanSettings

\* the page is left; the root element and the storage stay as they are
LeaveSettings ==
  /\ settings # NULL
  /\ settings' = NULL
  /\ darkToggled' = NULL
  /\ UNCHANGED <<storage, systemDark, rootDark, rootFontSize>>
  /\ UNCHANGED manualDark
  /\ UNCHANGED OtherThanSettings

toggleDarkMode(enabled) ==
  /\ settings # NULL
  /\ LET s == ToggleResult(DarkState, enabled)
     IN /\ settings' = Some([settings[1] EXCEPT !.isDarkMode = s.isDarkMode])
        /\ storage' = s.storage
        /\ rootDark' = s.rootDark
  /\ darkToggled' = Some(enabled)
  /\ manualDark' = TRUE
  /\ UNCHANGED <<systemDark, rootFontSize>>
  /\ UNCHANGED OtherThanSettings

\* the system colour scheme changes; the handler of useDarkMode follows it
\* while no darkMode item is stored
SystemThemeChange ==
  /\ systemDark' = ~systemDark
  /\ IF settings # NULL /\ storage.darkMode = NULL
       THEN LET s == ToggleResult(DarkState, systemDark')
            IN /\ settings' =
                    Some([settings[1] EXCEPT !.isDarkMode = s.isDarkMode])
               /\ storage' = s.storage
               /\ rootDark' = s.rootDark
               /\ darkToggled' = NULL
       ELSE UNCHANGED <<settings, storage, rootDark, darkToggled>>
  /\ UNCHANGED rootFontSize
  /\ UNCHANGED manualDark
  /\ UNCHANGED OtherThanSettings

handleNotificationsToggle(checked) ==
  /\ settings # NULL
  /\ settings' = Some([settings[1] EXCEPT !.notifications = checked])
  /\ storage' = [storage EXCEPT !.notifications = Some(BoolToString(checked))]
  /\ UNCHANGED <<systemDark, rootDark, rootFontSize, darkToggled>>
  /\ UNCHANGED manualDark
  /\ UNCHANGED OtherThanSettings

handleAutoPlayToggle(checked) ==
  /\ settings # NULL
  /\ settings' = Some([settings[1] EXCEPT !.autoPlay = checked])
  /\ storage' = [storage EXCEPT !.autoPlay = Some(BoolToString(checked))]
  /\ UNCHANGED <<systemDark, rootDark, rootFontSize, darkToggled>>
  /\ UNCHANGED manualDark
  /\ UNCHANGED OtherThanSettings

handleFontSizeChange(size) ==
  /\ settings # NULL
  /\ settings' = Some([settings[1] EXCEPT !.fontSize = size])
  /\ storage' = [storage EXCEPT !.fontSize = Some(size)]
  /\ rootFontSize' = FontSizePx(size)
  /\ UNCHANGED <<systemDark, rootDark, darkToggled>>
  /\ UNCHANGED manualDark
  /\ UNCHANGED OtherThanSettings

NextSettings ==
  \/ MountSettings \/ LeaveSettings
  \/ \E enabled \in BOOLEAN : toggleDarkMode(enabled)
  \/ SystemThemeChange
  \/ \E checked \in BOOLEAN :
       handleNotificationsToggle(checked) \/ handleAutoPlayToggle(checked)
  \/ \E size \in FontSizes : handleFontSizeChange(size)

----------------------------------------------------------------------------
(* Chapter detail: SurahDetailPage, TafsirPage (commentary), QuranCard reader *)

Chapters == {1, 2}

\* what the API can answer for a chapter: its detail in one of two versions
Versions == {"a", "b"}

DetailData(n) == { [nomor |-> n, version |-> x] : x \in Versions }

\* message of a failed detail request
DetailErrorMessages == {"Failed to fetch"}

DetailViews == {"quran", "tafsir", "card"}

\* a detail request in flight; live is FALSE once its owner was torn down
\* (SurahDetailPage: the isMounted flag of the effect run that issued it)
DetailRequest(v, n) == [view |-> v, chapter |-> n, live |-> TRUE]

\* the cleanup of the effect, or the unmount, of every owner of a request
TornDown(reqs) == { [r EXCEPT !.live = FALSE] : r \in reqs }

\* sessionStorage items "equran_surah_<n>": nothing stored
EmptyDetailCache == [n \in Chapters |-> NULL]

\* SurahDetailPage: useState initial values
SurahInitial == [data |-> NULL, isLoading |-> TRUE, error |-> NULL]

\* SurahDetailPage.load with chapter n up to its first await: the cached
\* detail is used if present
SurahLoaded(page, cache, n) ==
  IF cache[n] # NULL
    THEN [data |-> cache[n], isLoading |-> FALSE, error |-> NULL]
    ELSE [page EXCEPT !.isLoading = TRUE, !.error = NULL]

\* the request SurahDetailPage.load issues for chapter n
SurahRequests(cache, n) ==
  IF cache[n] # NULL THEN {} ELSE {DetailRequest("quran", n)}

\* TafsirPage: useState initial values for the route parameter id
TafsirDetailInitial(id) ==
  [view |-> IF id # NULL THEN "detail" ELSE "list",
   tafsirData |-> NULL, loading |-> TRUE, error |-> NULL]

\* QuranCard: useState initial values of the reader
ReaderInitial ==
  [isReaderOpen |-> FALSE, surahDetail |-> NULL, loadingDetail |-> FALSE]

\* what TafsirPage renders: the skeleton, the error panel, the list or the
\* commentary
TafsirRendered(t) ==
  IF t.loading /\ t.view = "detail" THEN "loading"
  ELSE IF t.error # NULL /\ t.view = "detail" THEN "error"
  ELSE IF t.view = "list" THEN "list"
  ELSE "detail"

InitChapters ==
  /\ detailView = "none"
  /\ chapterId = NULL
  /\ detailReq = {}
  /\ detailCache = EmptyDetailCache
  /\ detailFetched = {}
  /\ lateArrived = FALSE
  /\ surahPage = SurahInitial
  /\ tafsirDetail = TafsirDetailInitial(NULL)
  /\ reader = ReaderInitial

IdleChapters == InitChapters

\* the router replaces the mounted view by view v with route parameter id
\* (a chapter for SurahDetailPage, a chapter or nothing for TafsirPage,
\* nothing for the view holding the QuranCard); the mount effects run
OpenDetailView(v, id) ==
  /\ v # detailView
  /\ v = "quran" => id # NULL
  /\ v = "card" => id = NULL
  /\ Cardinality(detailReq) < MaxInFlight
  /\ detailView' = v
  /\ chapterId' = id
  /\ surahPage' = IF v = "quran"
                    THEN SurahLoaded(SurahInitial, detailCache, id[1])
                    ELSE SurahInitial
  /\ tafsirDetail' = IF v = "tafsir" THEN TafsirDetailInitial(id)
                     ELSE TafsirDetailInitial(NULL)
  /\ reader' = ReaderInitial
  /\ detailReq' = TornDown(detailReq) \cup
       (IF v = "quran" THEN SurahRequests(detailCache, id[1])
        ELSE IF v = "tafsir" /\ id # NULL
          THEN {DetailRequest("tafsir", id[1])}
        ELSE {})
  /\ UNCHANGED <<detailCache, detailFetched, lateArrived>>
  /\ UNCHANGED OtherThanChapters

\* SurahDetailPage: the route parameter changes to n while the page stays
\* mounted; the cleanup of the effect runs, then load
SurahChangeId(n) ==
  /\ detailView = "quran"
  /\ chapterId # Some(n)
  /\ Cardinality(detailReq) < MaxInFlight
  /\ chapterId' = Some(n)
  /\ surahPage' = SurahLoaded(surahPage, detailCache, n)
  /\ detailReq' = TornDown(detailReq) \cup SurahRequests(detailCache, n)
  /\ UNCHANGED <<detailView, detailCache, detailFetched, lateArrived,
                 tafsirDetail, reader>>
  /\ UNCHANGED OtherThanChapters

\* SurahDetailPage.load without the isMounted test
SurahDetailOk_noGuard(r, data) ==
  /\ r \in detailReq /\ r.view = "quran"
  /\ data \in DetailData(r.chapter)
  /\ detailReq' = detailReq \ {r}
  /\ surahPage' = [surahPage EXCEPT !.data = Some(data), !.isLoading = FALSE]
  /\ detailCache' = [detailCache EXCEPT ![r.chapter] = Some(data)]
  /\ detailFetched' = detailFetched \cup {<<"quran", r.chapter>>}
  /\ lateArrived' = (lateArrived \/ ~r.live)
  /\ UNCHANGED <<detailView, chapterId, tafsirDetail, reader>>
  /\ UNCHANGED OtherThanChapters

\* SurahDetailPage.load: the response arrives with code 200
SurahDetailOk(r, data) ==
  /\ r \in detailReq /\ r.view = "quran"
  /\ data \in DetailData(r.chapter)
  /\ detailReq' = detailReq \ {r}
  /\ IF r.live
       THEN /\ surahPage' = [surahPage EXCEPT !.data = Some(data),
                                              !.isLoading = FALSE]
            /\ detailCache' = [detailCache EXCEPT ![r.chapter] = Some(data)]
            /\ detailFetched' = detailFetched \cup {<<"quran", r.chapter>>}
            /\ UNCHANGED lateArrived
       ELSE /\ lateArrived' = TRUE
            /\ UNCHANGED <<surahPage, detailCache, detailFetched>>
  /\ UNCHANGED <<detailView, chapterId, tafsirDetail, reader>>
  /\ UNCHANGED OtherThanChapters

\* SurahDetailPage.load: fetch or json() throws, or the code is not 200
SurahDetailFail(r, message) ==
  /\ r \in detailReq /\ r.view = "quran"
  /\ detailReq' = detailReq \ {r}
  /\ IF r.live
       THEN /\ surahPage' = [surahPage EXCEPT !.error = Some(message),
                                              !.isLoading = FALSE]
            /\ UNCHANGED lateArrived
       ELSE /\ lateArrived' = TRUE
            /\ UNCHANGED surahPage
  /\ UNCHANGED <<detailView, chapterId, detailCache, detailFetched,
                 tafsirDetail, reader>>
  /\ UNCHANGED OtherThanChapters

\* TafsirPage.handleSurahSelect(n) in the list: navigate to /tafsir/n; the
\* same instance stays mounted and its effect on [id] calls fetchTafsir(n)
SelectTafsir(n) ==
  /\ detailView = "tafsir"
  /\ TafsirRendered(tafsirDetail) = "list"
  /\ chapterId # Some(n)
  /\ DetailRequest("tafsir", n) \notin detailReq
  /\ Cardinality(detailReq) < MaxInFlight
  /\ chapterId' = Some(n)
  /\ tafsirDetail' = [tafsirDetail EXCEPT !.loading = TRUE, !.error = NULL]
  /\ detailReq' = detailReq \cup {DetailRequest("tafsir", n)}
  /\ UNCHANGED <<detailView, detailCache, detailFetched, lateArrived,
                 surahPage, reader>>
  /\ UNCHANGED OtherThanChapters

\* TafsirPage: back from /tafsir/n to /tafsir in the same instance (onBack of
\* the header, or the browser's back button); the effect on [id] sets the view
TafsirBack ==
  /\ detailView = "tafsir"
  /\ chapterId # NULL
  /\ chapterId' = NULL
  /\ tafsirDetail' = [tafsirDetail EXCEPT !.view = "list"]
  /\ UNCHANGED <<detailView, detailReq, detailCache, detailFetched, lateArrived,
                 surahPage, reader>>
  /\ UNCHANGED OtherThanChapters

\* TafsirPage.fetchTafsir: the response arrives with an OK status; a state
\* setter of a component that was unmounted changes nothing
TafsirDetailOk(r, data) ==
  /\ r \in detailReq /\ r.view = "tafsir"
  /\ data \in DetailData(r.chapter)
  /\ detailReq' = detailReq \ {r}
  /\ IF r.live
       THEN /\ tafsirDetail' = [tafsirDetail EXCEPT
                                  !.tafsirData = Some(data),
                                  !.view = "detail", !.loading = FALSE]
            /\ detailFetched' = detailFetched \cup {<<"tafsir", r.chapter>>}
            /\ UNCHANGED lateArrived
       ELSE /\ lateArrived' = TRUE
            /\ UNCHANGED <<tafsirDetail, detailFetched>>
  /\ UNCHANGED <<detailView, chapterId, detailCache, surahPage, reader>>
  /\ UNCHANGED OtherThanChapters

\* TafsirPage.fetchTafsir: fetch throws or the status is not OK
TafsirDetailFail(r, message) ==
  /\ r \in detailReq /\ r.view = "tafsir"
  /\ detailReq' = detailReq \ {r}
  /\ IF r.live
       THEN /\ tafsirDetail' = [tafsirDetail EXCEPT
                                  !.error = Some(message), !.loading = FALSE]
            /\ UNCHANGED lateArrived
       ELSE /\ lateArrived' = TRUE
            /\ UNCHANGED tafsirDetail
  /\ UNCHANGED <<detailView, chapterId, detailCache, detailFetched,
                 surahPage, reader>>
  /\ UNCHANGED OtherThanChapters

\* the chapter the retry button of the error panel requests: id || "1"
RetryChapter(id) == IF id # NULL THEN id[1] ELSE 1

\* TafsirPage: the retry button of the error panel calls fetchTafsir
TafsirRetry ==
  /\ detailView = "tafsir"
  /\ TafsirRendered(tafsirDetail) = "error"
  /\ DetailRequest("tafsir", RetryChapter(chapterId)) \notin detailReq
  /\ Cardinality(detailReq) < MaxInFlight
  /\ tafsirDetail' = [tafsirDetail EXCEPT !.loading = TRUE, !.error = NULL]
  /\ detailReq' = detailReq \cup
                    {DetailRequest("tafsir", RetryChapter(chapterId))}
  /\ UNCHANGED <<detailView, chapterId, detailCache, detailFetched, lateArrived,
                 surahPage, reader>>
  /\ UNCHANGED OtherThanChapters

\* QuranCard.handleSurahSelect(s) with s.number = n, up to its await
SelectSurah(n) ==
  /\ detailView = "card"
  /\ ~reader.isReaderOpen
  /\ DetailRequest("card", n) \notin detailReq
  /\ Cardinality(detailReq) < MaxInFlight
  /\ chapterId' = Some(n)
  /\ reader' = [reader EXCEPT !.isReaderOpen = TRUE, !.loadingDetail = TRUE]
  /\ detailReq' = detailReq \cup {DetailRequest("card", n)}
  /\ UNCHANGED <<detailView, detailCache, detailFetched, lateArrived, surahPage,
                 tafsirDetail>>
  /\ UNCHANGED OtherThanChapters

\* QuranCard: the close button of the reader, or Escape
CloseReader ==
  /\ detailView = "card"
  /\ reader.isReaderOpen
  /\ reader' = [reader EXCEPT !.isReaderOpen = FALSE]
  /\ UNCHANGED <<detailView, chapterId, detailReq, detailCache, detailFetched,
                 lateArrived, surahPage, tafsirDetail>>
  /\ UNCHANGED OtherThanChapters

\* QuranCard.handleSurahSelect: the response arrives
ReaderDetailOk(r, data) ==
  /\ r \in detailReq /\ r.view = "card"
  /\ data \in DetailData(r.chapter)
  /\ detailReq' = detailReq \ {r}
  /\ IF r.live
       THEN /\ reader' = [reader EXCEPT !.surahDetail = Some(data),
                                        !.loadingDetail = FALSE]
            /\ detailFetched' = detailFetched \cup {<<"card", r.chapter>>}
            /\ UNCHANGED lateArrived
       ELSE /\ lateArrived' = TRUE
            /\ UNCHANGED <<reader, detailFetched>>
  /\ UNCHANGED <<detailView, chapterId, detailCache, surahPage, tafsirDetail>>
  /\ UNCHANGED OtherThanChapters

\* QuranCard.handleSurahSelect: fetch or json() throws
ReaderDetailFail(r) ==
  /\ r \in detailReq /\ r.view = "card"
  /\ detailReq' = detailReq \ {r}
  /\ IF r.live
       THEN /\ reader' = [reader EXCEPT !.loadingDetail = FALSE]
            /\ UNCHANGED lateArrived
       ELSE /\ lateArrived' = TRUE
            /\ UNCHANGED reader
  /\ UNCHANGED <<detailView, chapterId, detailCache, detailFetched,
                 surahPage, tafsirDetail>>
  /\ UNCHANGED OtherThanChapters

AllDetailRequests ==
  [view : DetailViews, chapter : Chapters, live : BOOLEAN]

AllDetailData == UNION { DetailData(n) : n \in Chapters }

NextChapters ==
  \/ \E v \in DetailViews, id \in {NULL} \cup {Some(n) : n \in Chapters} :
       OpenDetailView(v, id)
  \/ \E n \in Chapters : SurahChangeId(n) \/ SelectTafsir(n) \/ SelectSurah(n)
  \/ TafsirBack \/ TafsirRetry \/ CloseReader
  \/ \E r \in AllDetailRequests, data \in AllDetailData :
       \/ SurahDetailOk(r, data)
       \/ TafsirDetailOk(r, data)
       \/ ReaderDetailOk(r, data)
  \/ \E r \in AllDetailRequests, message \in DetailErrorMessages :
       SurahDetailFail(r, message) \/ TafsirDetailFail(r, message)
  \/ \E r \in AllDetailRequests : ReaderDetailFail(r)

----------------------------------------------------------------------------
(* useDarkMode in several views (tabs) that share one localStorage *)

MaxToggles == 4

Views == {1, 2}

\* the views other than v, which receive the storage event of a write of v
OtherViews(v) == Views \ {v}

\* the effect on [isDarkMode] of view v after isDarkMode became enabled:
\* localStorage.setItem("darkMode", String(enabled)); a write that changes
\* the stored value queues a storage event with that newValue for every
\* other view
PersistedEvents(pending, v, enabled) ==
  [w \in Views |->
     IF w \in OtherViews(v) /\ storedDark # BoolToString(enabled)
       THEN Append(pending[w], BoolToString(enabled))
       ELSE pending[w]]

InitViews ==
  /\ storedDark \in {"true", "false"}
  /\ viewDark = [v \in Views |-> storedDark = "true"]
  /\ storageEvents = [v \in Views |-> <<>>]
  /\ togglesLeft = MaxToggles

IdleViews ==
  /\ storedDark = "false"
  /\ viewDark = [v \in Views |-> FALSE]
  /\ storageEvents = [v \in Views |-> <<>>]
  /\ togglesLeft = 0

\* toggleDarkMode(enabled) by the user of view v with the value the switch
\* does not show, then the effect on [isDarkMode]
ToggleInView(v, enabled) ==
  /\ togglesLeft > 0
  /\ enabled # viewDark[v]
  /\ viewDark' = [viewDark EXCEPT ![v] = enabled]
  /\ storedDark' = BoolToString(enabled)
  /\ storageEvents' = PersistedEvents(storageEvents, v, enabled)
  /\ togglesLeft' = togglesLeft - 1
  /\ UNCHANGED OtherThanViews

\* onStorage in view v for its oldest pending event (key "darkMode", newValue
\* not null): setIsDarkMode(e.newValue === "true"), then, if isDarkMode
\* changed, the effect on [isDarkMode]
onStorage(v) ==
  /\ storageEvents[v] # <<>>
  /\ LET enabled == Head(storageEvents[v]) = "true"
         rest == [storageEvents EXCEPT ![v] = Tail(@)]
     IN /\ viewDark' = [viewDark EXCEPT ![v] = enabled]
        /\ IF enabled # viewDark[v]
             THEN /\ storedDark' = BoolToString(enabled)
                  /\ storageEvents' = PersistedEvents(rest, v, enabled)
             ELSE /\ storedDark' = storedDark
                  /\ storageEvents' = rest
  /\ UNCHANGED togglesLeft
  /\ UNCHANGED OtherThanViews

NextViews ==
  \/ \E v \in Views, enabled \in BOOLEAN : ToggleInView(v, enabled)
  \/ \E v \in Views : onStorage(v)

----------------------------------------------------------------------------
(* HijriCalendarPage: month navigation together with the Hijri-date fetch *)

MaxMonthsAway == 1

\* dates on which the page is opened in this part of the model
HijriTodaySet ==
  { [year |-> 2023, month |-> 11, day |-> 31],
    [year |-> 2024, month |-> 1,  day |-> 29] }

\* months between the month of date d and the month of today
MonthsAway(d) == (d.year * 12 + d.month) - (today.year * 12 + today.month)

\* data.hijri the conversion service returns for the Gregorian date d.  The
\* conversion is the service's; the page relies on nothing but the answer
\* being the one for the date asked, so the answer keeps the numbers of d.
GToHBody(d) ==
  [day |-> NumberToString(d.day),
   month |-> [number |-> d.month + 1, en |-> "Month"],
   year |-> NumberToString(d.year), weekday |-> [en |-> "Day"]]

\* err.message of the failures of HijriCalendarPage.fetchHijriDate
HijriErrorMessages ==
  { "Failed to fetch",                     \* fetch rejected
    "HTTP error! status: 500",             \* !response.ok
    "Invalid date",                        \* code # 200, result.data a string
    "Gagal memuat tanggal Hijriah",        \* code # 200, result.data empty
    "Gagal memuat tanggal Hijriah. Silakan coba lagi." }  \* empty err.message

\* HijriCalendarPage: useState initial values of the Hijri part
HijriInitial == [hijriDate |-> NULL, isLoading |-> TRUE, error |-> NULL]

InitHijri ==
  /\ today \in HijriTodaySet
  /\ currentDate = today
  /\ calendarDays = BuildCalendarDays(currentDate, today)
  /\ hijriPage = HijriInitial
  /\ hijriReq = {currentDate}

IdleHijri ==
  /\ hijriPage = HijriInitial
  /\ hijriReq = {}

\* setCurrentDate(d), the calendarDays memo and the effect on [currentDate],
\* which starts fetchHijriDate for d
NavigateAndFetch(d) ==
  /\ MonthsAway(d) \in -MaxMonthsAway..MaxMonthsAway
  /\ d \notin hijriReq
  /\ Cardinality(hijriReq) < MaxInFlight
  /\ currentDate' = d
  /\ calendarDays' = BuildCalendarDays(d, today)
  /\ hijriPage' = [hijriPage EXCEPT !.isLoading = TRUE, !.error = NULL]
  /\ hijriReq' = hijriReq \cup {d}
  /\ UNCHANGED today
  /\ UNCHANGED OtherThanHijri

PreviousMonthAndFetch ==
  NavigateAndFetch(MakeDate(currentDate.year, currentDate.month - 1, 1))

NextMonthAndFetch ==
  NavigateAndFetch(MakeDate(currentDate.year, currentDate.month + 1, 1))

TodayAndFetch == NavigateAndFetch(today)

\* fetchHijriDate for a date d: the response arrives with code 200
HijriFetchOk ==
  \E d \in hijriReq :
    /\ hijriPage' = [hijriPage EXCEPT
                       !.hijriDate = Some(HijriDateOf(GToHBody(d))),
                       !.isLoading = FALSE]
    /\ hijriReq' = hijriReq \ {d}
    /\ UNCHANGED calVars
    /\ UNCHANGED OtherThanHijri

\* fetchHijriDate for a date d: fetch or json() throws, the status is not
\* OK, or the code is not 200
HijriFetchFail(message) ==
  \E d \in hijriReq :
    /\ hijriPage' = [hijriPage EXCEPT !.error = Some(message),
                                      !.isLoading = FALSE]
    /\ hijriReq' = hijriReq \ {d}
    /\ UNCHANGED calVars
    /\ UNCHANGED OtherThanHijri

NextHijri ==
  \/ PreviousMonthAndFetch \/ NextMonthAndFetch \/ TodayAndFetch
  \/ HijriFetchOk
  \/ \E message \in HijriErrorMessages : HijriFetchFail(message)

----------------------------------------------------------------------------
(* Specifications *)

InitSpecCal == InitCal /\ IdleNp /\ IdleGc /\ IdlePages /\ IdleLists /\ IdleSettings
  /\ IdleChapters /\ IdleViews /\ IdleHijri

SpecCal == InitSpecCal /\ [][NextCal]_vars

InitSpecNextPrayer == InitNp /\ IdleCal /\ IdleGc /\ IdlePages /\ IdleLists /\ IdleSettings
  /\ IdleChapters /\ IdleViews /\ IdleHijri

SpecNextPrayer == InitSpecNextPrayer /\ [][NextNp]_vars

InitSpecGeocode == InitGc /\ IdleCal /\ IdleNp /\ IdlePages /\ IdleLists /\ IdleSettings
  /\ IdleChapters /\ IdleViews /\ IdleHijri

InitSpecShown == InitNpShown /\ IdleCal /\ IdleGc /\ IdlePages /\ IdleLists /\ IdleSettings
  /\ IdleChapters /\ IdleViews /\ IdleHijri

SpecShown == InitSpecShown /\ [][NextNpShown]_vars

SpecGeocode == InitSpecGeocode /\ [][NextGc]_vars

InitSpecPages == InitPages /\ IdleCal /\ IdleNp /\ IdleGc /\ IdleLists /\ IdleSettings
  /\ IdleChapters /\ IdleViews /\ IdleHijri

SpecPages == InitSpecPages /\ [][NextPages]_vars

InitSpecFilter == InitLists /\ IdleCal /\ IdleNp /\ IdleGc /\ IdlePages /\ IdleSettings
  /\ IdleChapters /\ IdleViews /\ IdleHijri

SpecFilter == InitSpecFilter /\ [][NextLists]_vars

InitSpecSettings == InitSettings /\ IdleCal /\ IdleNp /\ IdleGc /\ IdlePages /\ IdleLists
  /\ IdleChapters /\ IdleViews /\ IdleHijri

SpecSettings == InitSpecSettings /\ [][NextSettings]_vars

InitSpecChapters ==
  InitChapters /\ IdleCal /\ IdleNp /\ IdleGc /\ IdlePages /\ IdleLists
  /\ IdleSettings /\ IdleViews /\ IdleHijri

SpecChapters == InitSpecChapters /\ [][NextChapters]_vars

InitSpecViews ==
  InitViews /\ IdleCal /\ IdleNp /\ IdleGc /\ IdlePages /\ IdleLists
  /\ IdleSettings /\ IdleChapters /\ IdleHijri

InitSpecHijri ==
  InitHijri /\ IdleNp /\ IdleGc /\ IdlePages /\ IdleLists /\ IdleSettings
  /\ IdleChapters /\ IdleViews

SpecHijri == InitSpecHijri /\ [][NextHijri]_vars

\* every view handles each storage event dispatched to it
SpecViews ==
  /\ InitSpecViews
  /\ [][NextViews]_vars
  /\ \A v \in Views : WF_vars(onStorage(v))

----------------------------------------------------------------------------
(* Properties of the calendar grid *)

\* length of the displayed month, counted on the day line
DisplayedMonthLength ==
  JulianDay(MakeDate(currentDate.year, currentDate.month + 1, 1))
    - JulianDay(MakeDate(currentDate.year, currentDate.month, 1))

PreviousMonthLength ==
  JulianDay(MakeDate(currentDate.year, currentDate.month, 1))
    - JulianDay(MakeDate(currentDate.year, currentDate.month - 1, 1))

CurrentCells == {i \in DOMAIN calendarDays : calendarDays[i].isCurrentMonth}
TodayCells   == {i \in DOMAIN calendarDays : calendarDays[i].isToday}

\* C1: for every displayed (year, month) the grid length is a multiple of 7,
\* every day 1..N of the month (29 for a leap February) occurs exactly once
\* as a current-month cell, and at most one cell is flagged isToday.
C1_GridShape ==
  /\ Len(calendarDays) % 7 = 0
  /\ \A d \in 1..DisplayedMonthLength :
       Cardinality({i \in CurrentCells : calendarDays[i].date = d}) = 1
  /\ \A i \in CurrentCells : calendarDays[i].date \in 1..DisplayedMonthLength
  /\ Cardinality(TodayCells) <= 1

\* a leap-year February reached by navigation, shown with its 29 days
C1_Witness ==
  /\ currentDate.month = 1
  /\ IsLeapYear(currentDate.year)
  /\ currentDate # today
  /\ Cardinality(CurrentCells) = 29

\* C6: the grid starts with k = weekday(day 1) filler cells holding the last
\* k day numbers of the previous month in ascending order, ends with
\* t = 6 - weekday(last day) filler cells holding 1..t, filler cells are not
\* current-month cells, 0 <= k, t <= 6 and no row is made of filler only.
C6_Fillers ==
  LET y == currentDate.year
      m == currentDate.month
      N == DisplayedMonthLength
      k == GetDay([year |-> y, month |-> m, day |-> 1])
      t == 6 - GetDay([year |-> y, month |-> m, day |-> N])
      L == Len(calendarDays)
  IN /\ k \in 0..6 /\ t \in 0..6
     /\ L = k + N + t
     /\ \A j \in 1..k :
          /\ calendarDays[j].date = PreviousMonthLength - k + j
          /\ ~calendarDays[j].isCurrentMonth
     /\ \A j \in 1..t :
          /\ calendarDays[k + N + j].date = j
          /\ ~calendarDays[k + N + j].isCurrentMonth
     /\ CurrentCells = (k + 1)..(k + N)
     /\ \A r \in 0..((L \div 7) - 1) :
          \E c \in 1..7 : calendarDays[7 * r + c].isCurrentMonth

\* a month with both leading and trailing filler whose previous month is
\* shorter than the displayed one (March after February)
C6_Witness ==
  /\ currentDate.month = 2
  /\ ~calendarDays[1].isCurrentMonth
  /\ ~calendarDays[Len(calendarDays)].isCurrentMonth
  /\ calendarDays[1].date < 29

\* C7: a cell is flagged isToday only if it is a current-month cell, the
\* displayed month and year are today's and its number is today's day; the
\* current month has exactly one flagged cell, any other month (the same
\* month of another year included) has none.
C7_TodayFlag ==
  LET shown == currentDate.month = today.month /\ currentDate.year = today.year
  IN /\ \A i \in TodayCells :
          /\ calendarDays[i].isCurrentMonth
          /\ shown
          /\ calendarDays[i].date = today.day
     /\ shown => Cardinality(TodayCells) = 1
     /\ ~shown => TodayCells = {}

\* today's month shown for another year: nothing is flagged
C7_Witness ==
  /\ currentDate.month = today.month
  /\ currentDate.year # today.year
  /\ TodayCells = {}
  /\ \E i \in CurrentCells : calendarDays[i].date = today.day

----------------------------------------------------------------------------
(* Properties of the next-prayer selection *)

\* minute of day of a time string, found by search over the clock values
MinuteOfDay(str) ==
  LET c == CHOOSE c \in PrayerClock \cup NowSet : TimeString(c) = str
  IN c.hours * 60 + c.minutes

ObligatoryTimes ==
  <<npTimings[1].Fajr, npTimings[1].Dhuhr, npTimings[1].Asr,
    npTimings[1].Maghrib, npTimings[1].Isha>>

\* index (1 = Fajr .. 5 = Isha) the selection rule asks for
ExpectedIndex ==
  LET now   == npNow.hours * 60 + npNow.minutes
      later == {i \in 1..5 : MinuteOfDay(ObligatoryTimes[i]) > now}
  IN IF later = {} THEN 1 ELSE CHOOSE i \in later : \A j \in later : i <= j

Ascending ==
  \A i \in 1..4 : MinuteOfDay(ObligatoryTimes[i]) < MinuteOfDay(ObligatoryTimes[i + 1])

\* what the ascending case of the rule prescribes
AscendingIndex ==
  LET now == npNow.hours * 60 + npNow.minutes
  IN IF now < MinuteOfDay(ObligatoryTimes[1]) THEN 1
     ELSE IF now >= MinuteOfDay(ObligatoryTimes[5]) THEN 1
     ELSE 1 + CHOOSE i \in 1..4 :
                /\ MinuteOfDay(ObligatoryTimes[i]) <= now
                /\ now < MinuteOfDay(ObligatoryTimes[i + 1])

HomeLabels   == <<"Subuh", "Dzuhur", "Ashar", "Maghrib", "Isya">>

SelectedHome(idx) ==
  /\ npHome[1].label = HomeLabels[idx]
  /\ npHome[1].time = ObligatoryTimes[idx]

SelectedJadwal(idx) ==
  /\ npJadwal[1].name = HomeLabels[idx]
  /\ npJadwal[1].time = ObligatoryTimes[idx]

\* C2: on both pages the next prayer is the first of Fajr, Dhuhr, Asr,
\* Maghrib, Isha whose minute of day is strictly greater than the current
\* minute (an equal time is not selected), and Fajr with today's time when
\* none is later; for ascending times: before the first -> the first,
\* between times[i] and times[i+1] -> times[i+1], after the last -> the first.
C2_NextPrayer ==
  /\ npHome # NULL =>
       /\ SelectedHome(ExpectedIndex)
       /\ Ascending => SelectedHome(AscendingIndex)
  /\ npJadwal # NULL =>
       /\ SelectedJadwal(ExpectedIndex)
       /\ Ascending => SelectedJadwal(AscendingIndex)

\* both pages evaluated at the very minute of Dhuhr with ascending times:
\* Asr is selected
C2_Witness ==
  /\ npHome # NULL /\ npJadwal # NULL
  /\ Ascending
  /\ npNow.hours * 60 + npNow.minutes = MinuteOfDay(npTimings[1].Dhuhr)
  /\ npHome[1].label = "Ashar"
  /\ npJadwal[1].name = "Ashar"

----------------------------------------------------------------------------
(* Properties of the place-name extraction *)

FieldOrder == <<"city", "town", "village", "county", "state">>

\* the structured fields of the response that are present and not empty
NonEmptyFields ==
  IF gcData.address = NULL THEN {}
  ELSE {i \in 1..5 : /\ gcData.address[1][FieldOrder[i]] # NULL
                     /\ Len(gcData.address[1][FieldOrder[i]][1]) > 0}

\* the part of the display name before its first comma; empty when absent
FirstSegment ==
  IF gcData.display_name = NULL THEN <<>>
  ELSE LET dn == gcData.display_name[1]
           n  == CHOOSE n \in 0..Len(dn) :
                   /\ \A j \in 1..n : dn[j] # ","
                   /\ (n < Len(dn) => dn[n + 1] = ",")
       IN SubSeq(dn, 1, n)

FallbackName == IF FirstSegment # <<>> THEN FirstSegment ELSE Unknown

\* C3: on both reverse-geocoding pages, a successful response with none of
\* city, town, village, county, state resolves to the first comma-delimited
\* segment of the display name, and to the unknown sentinel only when that
\* segment is empty or absent.
C3_DisplayNameFallback ==
  NonEmptyFields = {} =>
    /\ gcHome # NULL => gcHome[1] = FallbackName
    /\ gcJadwal # NULL => gcJadwal[1] = FallbackName

\* C8: on both pages, when at least one of city, town, village, county, state
\* is non-empty the resolved name is the first non-empty one in that order.
C8_FieldPreference ==
  NonEmptyFields # {} =>
    LET first == CHOOSE i \in NonEmptyFields : \A j \in NonEmptyFields : i <= j
        name  == gcData.address[1][FieldOrder[first]][1]
    IN /\ gcHome # NULL => gcHome[1] = name
       /\ gcJadwal # NULL => gcJadwal[1] = name

\* only county and state populated: both pages resolve to the county
C8_Witness ==
  /\ NonEmptyFields = {4, 5}
  /\ gcHome = Some(<<"K">>)
  /\ gcJadwal = Some(<<"K">>)

----------------------------------------------------------------------------
(* Properties of the location chain of HomePage and PrayerTimesPage *)

LocationErrors ==
  { Some("Geolocation tidak didukung oleh browser Anda"),
    Some(LocationDeniedMessage), Some(LocationFailedMessage) }

\* the message reverseGeocode throws for a response that is not ok
GeocodeErrorMessage == "Gagal mendapatkan nama lokasi"

\* HomePage renders the prayer list
HomeListShown == home.locationAllowed = Some(TRUE) \/ home.isReverseGeocoding

\* PrayerTimesPage renders the prayer list
JadwalListShown ==
  ~jadwal.isLoading /\ jadwal.error = NULL /\ jadwal.prayerTimes # NULL

\* C9: on both pages a failed reverse lookup (network, HTTP status, body)
\* ends with the place name at the unknown sentinel and the in-progress flag
\* false, sets no error on the page, and does not keep the prayer times from
\* being loaded and shown.
C9_GeocodeFailure ==
  /\ (route = "home" /\ homeReq.reverseDone = "failed") =>
       /\ home.locationName = Some(Unknown)
       /\ ~home.isReverseGeocoding
       /\ home.isLoading => homeReq.timings > 0
       /\ homeReq.timingsDone = "ok" => home.prayerTimes # <<>> /\ HomeListShown
  /\ (route = "jadwal" /\ jadwalReq.reverseDone = "failed") =>
       /\ jadwal.locationName = Some(Unknown)
       /\ ~jadwal.isReverseGeocoding
       /\ jadwal.error # Some(GeocodeErrorMessage)
       /\ jadwal.error # NULL => jadwalReq.timingsDone = "failed"
       /\ jadwal.isLoading => jadwalReq.timings > 0
       /\ jadwalReq.timingsDone = "ok" => JadwalListShown

\* the lookup failed on the home page and the prayer times are listed
C9_Witness ==
  /\ route = "home"
  /\ homeReq.reverseDone = "failed"
  /\ home.prayerTimes # <<>>
  /\ ~home.isLoading

\* C10: every geolocation request ends in exactly one of success and failure.
\* Home page: coords is set iff locationAllowed is true, and locationAllowed
\* false implies coords null and an empty prayer list.  Prayer-times page:
\* coords and a location error are never set together.
C10_GeolocationOutcome ==
  /\ (home.coords # NULL) <=> (home.locationAllowed = Some(TRUE))
  /\ home.locationAllowed = Some(FALSE) =>
       home.coords = NULL /\ home.prayerTimes = <<>>
  /\ (route = "home" /\ hasGeolocation) =>
       ((homeReq.geolocation = 1) <=> (home.locationAllowed = NULL))
  /\ ~(jadwal.coords # NULL /\ jadwal.error \in LocationErrors)
  /\ (route = "jadwal" /\ hasGeolocation) =>
       ((jadwalReq.geolocation = 1) <=>
          (jadwal.coords = NULL /\ jadwal.error \notin LocationErrors))

\* the request failed on the home page, which shows the denied state
C10_Witness ==
  /\ route = "home"
  /\ home.locationAllowed = Some(FALSE)
  /\ homeReq.geolocation = 0
  /\ ~home.isLoading

----------------------------------------------------------------------------
(* Properties of the chapter-list filters *)

\* the letters that exist in two cases: <<lower, upper>>
CasePairs == { <<"a", "A">>, <<"b", "B">> }

FoldChar(c) ==
  IF \E p \in CasePairs : p[2] = c
    THEN (CHOOSE p \in CasePairs : p[2] = c)[1]
    ELSE c

Fold(s) == [i \in 1..Len(s) |-> FoldChar(s[i])]

\* two strings that differ in letter case only
SameUpToCase(s, t) ==
  /\ Len(s) = Len(t)
  /\ \A i \in 1..Len(s) :
       s[i] = t[i] \/ <<s[i], t[i]>> \in CasePairs \/ <<t[i], s[i]>> \in CasePairs

\* t occurs in s
Occurs(t, s) ==
  \E i \in 1..(Len(s) + 1) :
    /\ i + Len(t) - 1 <= Len(s)
    /\ \A k \in 1..Len(t) : s[i + k - 1] = t[k]

\* the decimal digits of n, most significant first
DecimalDigits(n) ==
  LET len == CHOOSE l \in 1..4 : 10^(l - 1) <= n /\ n < 10^l
  IN [i \in 1..len |-> (n \div 10^(len - i)) % 10]

DecimalString(n) ==
  LET d == DecimalDigits(n)
  IN [i \in 1..Len(d) |-> Digits[d[i] + 1]]

\* the mounted view's fetched list, search term and displayed list, and its
\* filter applied to another term
ViewItems ==
  CASE listView = "quran" ->
         IF quranPage.list = NULL THEN <<>> ELSE quranPage.list[1]
    [] listView = "tafsir" -> tafsirPage.surahList
    [] listView = "card" -> card.surah

ViewQuery ==
  CASE listView = "quran" -> quranPage.query
    [] listView = "tafsir" -> tafsirPage.searchTerm
    [] listView = "card" -> card.searchQuery

ViewShown ==
  CASE listView = "quran" -> quranPage.filtered
    [] listView = "tafsir" -> tafsirPage.filteredSurah
    [] listView = "card" -> card.filteredSurah

ViewFilter(q) ==
  CASE listView = "quran" -> QuranFiltered(quranPage.list, q)
    [] listView = "tafsir" -> TafsirFiltered(tafsirPage.surahList, q)
    [] listView = "card" -> CardFiltered(card.surah, q)

\* transliterated name, translated meaning and number of a chapter of a view
ChapterName(s) ==
  CASE listView = "quran" -> s.transliteration
    [] listView = "tafsir" -> s.namaLatin
    [] listView = "card" -> s.name_latin

ChapterMeaning(s) ==
  CASE listView = "quran" -> s.translation
    [] listView = "tafsir" -> s.arti
    [] listView = "card" -> s.translation

ChapterNumber(s) ==
  CASE listView = "quran" -> s.number
    [] listView = "tafsir" -> s.nomor
    [] listView = "card" -> s.number

Shown(s) == \E j \in 1..Len(ViewShown) : ViewShown[j] = s

----------------------------------------------------------------------------
(* Properties of useDarkMode *)

----------------------------------------------------------------------------
(* Properties of the requests of HomePage and PrayerTimesPage *)

\* the step is handleRetryLocation taken in the denied state
RetryStep ==
  /\ route = "home" /\ route' = "home"
  /\ home.locationAllowed = Some(FALSE)
  /\ home'.locationAllowed = NULL

\* the step mounts HomePage
HomeMountStep == route # "home" /\ route' = "home"

\* C11: on the home page a geolocation request is issued only by the mount
\* and by handleRetryLocation, never by the step that reports a failure;
\* handleRetryLocation in the denied state puts locationAllowed, coords,
\* locationName and prayerTimes back to their initial values and issues
\* exactly one geolocation request.
C11_GeolocationRequests ==
  [][ /\ (route' = "home" /\ homeReq'.geoRequests > homeReq.geoRequests
           /\ ~HomeMountStep) => RetryStep
      /\ (route' = "home" /\ homeReq'.geolocation > homeReq.geolocation
           /\ ~HomeMountStep) => RetryStep
      /\ (route = "home" /\ route' = "home"
           /\ home'.locationAllowed = Some(FALSE)) =>
             /\ homeReq'.geolocation = 0
             /\ homeReq'.geoRequests = homeReq.geoRequests
      /\ RetryStep =>
             /\ home'.locationAllowed = HomeInitial.locationAllowed
             /\ home'.coords = HomeInitial.coords
             /\ home'.locationName = HomeInitial.locationName
             /\ home'.prayerTimes = HomeInitial.prayerTimes
             /\ homeReq.geolocation = 0
             /\ homeReq'.geolocation = 1
             /\ homeReq'.geoRequests = homeReq.geoRequests + 1 ]_vars

\* the retry was used: the second request of this mount is under way
C11_Witness ==
  /\ route = "home"
  /\ home.locationAllowed = NULL
  /\ homeReq.geolocation = 1
  /\ homeReq.geoRequests = 2

\* what the home page shows as its failure state: the "Izin lokasi ditolak."
\* line and the "Coba Lagi" buttons, rendered when locationAllowed is false
HomeFailureShown == home.locationAllowed = Some(FALSE)

\* the error panel of the prayer-times page with its "Coba Lagi" button
JadwalFailureShown == jadwal.error # NULL

\* C12: on the home page and on the prayer-times page, a host without
\* geolocation leaves the page out of its loading state and in the
\* location-failure state with a message.
C12_NoGeolocation ==
  ~hasGeolocation =>
    /\ route = "home" => ~home.isLoading /\ HomeFailureShown
    /\ route = "jadwal" =>
         /\ ~jadwal.isLoading /\ ~jadwal.isLocationLoading
         /\ JadwalFailureShown

\* C13: on the home page and on the prayer-times page, once the timings
\* request has failed and none is in flight, loading is false, the request
\* has left no prayer times, and an error with a retry is shown.
C13_TimingsFailure ==
  /\ (route = "home" /\ homeReq.timingsDone = "failed" /\ homeReq.timings = 0) =>
       /\ ~home.isLoading
       /\ HomeFailureShown
  /\ (route = "jadwal" /\ jadwalReq.timingsDone = "failed"
       /\ jadwalReq.timings = 0) =>
       /\ ~jadwal.isLoading
       /\ jadwal.prayerTimes = NULL
       /\ JadwalFailureShown

\* midnight has passed by more than the lateness allowed to the check
PastDeadline == clock.day > StartClock.day /\ clock.minutes > MaxLate

\* the latest timings request of the mounted page asked for today
RequestedToday ==
  /\ (route = "home" /\ home.coords # NULL) => homeReq.timingsDay = clock.day
  /\ (route = "jadwal" /\ jadwal.coords # NULL) =>
       jadwalReq.timingsDay = clock.day

\* the step sets new coords without issuing a timings request
CoordsWithoutRequest ==
  \/ /\ route' = "home" /\ home'.coords # NULL /\ home'.coords # home.coords
     /\ homeReq'.timingsIssued # homeReq.timingsIssued + 1
  \/ /\ route' = "jadwal" /\ jadwal'.coords # NULL
     /\ jadwal'.coords # jadwal.coords
     /\ jadwalReq'.timingsIssued # jadwalReq.timingsIssued + 1

\* C14: on the home page and on the prayer-times page, when the clock has
\* passed midnight with the page mounted and coords set, a timings request
\* for the new day has been issued once the time allowed to a late check is
\* over; and a step that sets new coords issues a timings request.
C14_MidnightRefetch ==
  /\ [](PastDeadline => RequestedToday)
  /\ [][~CoordsWithoutRequest]_vars

\* both fetches of the mounted page have been started for its coords
BothIssued ==
  /\ (route = "home" /\ home.coords # NULL) =>
       /\ homeReq.reverse > 0 \/ homeReq.reverseDone # "none"
       /\ homeReq.timings > 0 \/ homeReq.timingsDone # "none"
  /\ (route = "jadwal" /\ jadwal.coords # NULL) =>
       /\ jadwalReq.reverse > 0 \/ jadwalReq.reverseDone # "none"
       /\ jadwalReq.timings > 0 \/ jadwalReq.timingsDone # "none"

\* the one timings request issued for the coords has settled: the
\* prayer-times state is what its outcome alone gives
TimingsStateFromOutcome ==
  /\ (route = "home" /\ homeReq.timingsIssued = 1 /\ homeReq.timings = 0) =>
       /\ ~home.isLoading
       /\ homeReq.timingsDone = "ok" =>
            home.prayerTimes = FormattedPrayerTimes(homeReq.timingsBody[1])
       /\ homeReq.timingsDone = "failed" => home.prayerTimes = <<>>
  /\ (route = "jadwal" /\ jadwalReq.timingsIssued = 1
       /\ jadwalReq.timings = 0) =>
       /\ ~jadwal.isLoading
       /\ jadwalReq.timingsDone = "ok" =>
            /\ jadwal.prayerTimes =
                 Some(PrayerTimesRecord(jadwalReq.timingsBody[1], ResponseDate))
            /\ jadwal.error = NULL
       /\ jadwalReq.timingsDone = "failed" =>
            /\ jadwal.prayerTimes = NULL
            /\ jadwal.error = jadwalReq.timingsMessage

\* the reverse-geocode request has settled: the place name is what its
\* outcome alone gives
NameFromOutcome ==
  /\ (route = "home" /\ homeReq.reverse = 0
       /\ homeReq.reverseDone # "none") =>
       /\ ~home.isReverseGeocoding
       /\ homeReq.reverseDone = "ok" =>
            home.locationName = Some(HomeLocationName(homeReq.reverseBody[1]))
       /\ homeReq.reverseDone = "failed" => home.locationName = Some(Unknown)
  /\ (route = "jadwal" /\ jadwalReq.reverse = 0
       /\ jadwalReq.reverseDone # "none") =>
       /\ ~jadwal.isReverseGeocoding
       /\ jadwalReq.reverseDone = "ok" =>
            jadwal.locationName =
              Some(JadwalLocationName(jadwalReq.reverseBody[1]))
       /\ jadwalReq.reverseDone = "failed" =>
            jadwal.locationName = Some(Unknown)

\* C15: once coords is set both requests are under way or settled, neither
\* waiting for the other; whatever the outcomes and the order of completion,
\* the prayer-times state is given by the outcome of the timings request and
\* the place name by the outcome of the reverse-geocode request.
C15_IndependentFetches ==
  BothIssued /\ TimingsStateFromOutcome /\ NameFromOutcome

\* the prayer-times page after the place was found and the timings failed
C15_Witness ==
  /\ route = "jadwal"
  /\ jadwalReq.reverse = 0 /\ jadwalReq.timings = 0
  /\ jadwalReq.reverseDone = "ok" /\ jadwalReq.timingsDone = "failed"
  /\ jadwal.locationName # Some(Unknown)

----------------------------------------------------------------------------
(* Properties of the chapter-list requests *)

\* a step that activates chapter-list view v: the router mounts the page, or
\* the list dialog of the mounted QuranCard is opened
ActivatesList(v) ==
  \/ v # "card" /\ listView # v /\ listView' = v
  \/ v = "card" /\ (listView # v \/ ~card.isListOpen) /\ listView' = v
       /\ card'.isListOpen

\* C17: a step that activates a chapter-list view whose list request
\* completed successfully earlier in the session leaves no chapter-list
\* request in flight that was not in flight before; and a list is in the
\* session cache only after a list request that succeeded.
C17_ListFetchedOnce ==
  /\ [][\A v \in ListViews :
         (v \in listFetched /\ ActivatesList(v)) =>
           listReq' <= (IF listView = v THEN listReq ELSE 0)]_vars
  /\ [](sessionCache # NULL => "quran" \in listFetched)

----------------------------------------------------------------------------
(* Properties of the chapter-detail requests *)

\* a step in which the response to a request arrives whose owner was torn
\* down before
LateResponseStep ==
  \E r \in detailReq : ~r.live /\ detailReq' = detailReq \ {r}

Opens(v, n) ==
  /\ detailView' = v /\ chapterId' = Some(n)
  /\ detailView # v \/ chapterId # Some(n)

\* a step that issues a detail request of view v for chapter n
Issues(v, n) ==
  /\ DetailRequest(v, n) \in detailReq'
  /\ DetailRequest(v, n) \notin detailReq

\* C18: a step that opens chapter n in a view whose detail request for n
\* succeeded earlier in the session issues no request for n (and
\* SurahDetailPage then shows the detail that was fetched); a step that opens
\* a chapter not fetched before issues a request for it.
C18_DetailCachedPerChapter ==
  [][\A v \in DetailViews, n \in Chapters :
       Opens(v, n) =>
         IF <<v, n>> \in detailFetched
           THEN /\ ~Issues(v, n)
                /\ v = "quran" => surahPage'.data = detailCache[n]
           ELSE Issues(v, n)]_vars

\* TafsirPage has chapter n open (the route is /tafsir/n), its last
\* fetchTafsir has ended and left an error
TafsirFetchFailed ==
  /\ detailView = "tafsir"
  /\ chapterId # NULL
  /\ tafsirDetail.error # NULL
  /\ ~tafsirDetail.loading

\* C19: whenever the commentary fetch for the open chapter has failed,
\* TafsirPage renders the error panel (which holds the retry button), whether
\* the page was entered at /tafsir/n or the chapter was selected in the list.
C19_DetailFailureVisible ==
  TafsirFetchFailed => TafsirRendered(tafsirDetail) = "error"

----------------------------------------------------------------------------
(* Properties of useDarkMode in several views *)

\* no storage event is pending and every view shows the stored value
Quiescent ==
  /\ \A v \in Views : storageEvents[v] = <<>>
  /\ \A v \in Views : viewDark[v] = (storedDark = "true")

\* C20: after the toggles the users make, the views reach a state, and stay
\* in it, in which no storage event is pending and isDarkMode of every view
\* is the stored darkMode value.
C20_DarkModeQuiescence == <>[]Quiescent

----------------------------------------------------------------------------
(* Properties of the Hijri-date fetch *)

\* C21: the Hijri-date fetch of HijriCalendarPage, the only fetch of that
\* page, never leaves an error set; once no request is in flight the
\* loading flag is false.
C21_HijriFailureSilent ==
  /\ hijriPage.error = NULL
  /\ hijriReq = {} => ~hijriPage.isLoading

----------------------------------------------------------------------------
(* Properties of the stored preferences *)

\* C22: while SettingsPage is mounted, whatever strings the storage held
\* when it was opened, fontSize is one of the three defined sizes and
\* notifications, autoPlay and isDarkMode are booleans.
C22_LoadedPreferencesValid ==
  settings # NULL =>
    /\ settings[1].fontSize \in FontSizes
    /\ settings[1].notifications \in BOOLEAN
    /\ settings[1].autoPlay \in BOOLEAN
    /\ settings[1].isDarkMode \in BOOLEAN

----------------------------------------------------------------------------
(* Properties of the error messages *)

\* the messages PrayerTimesPage words itself for a failed intent
StaticMessages ==
  { "Geolocation tidak didukung oleh browser Anda",
    LocationDeniedMessage, LocationFailedMessage,
    "Gagal memuat jadwal sholat",
    "Gagal memuat jadwal sholat. Silakan coba lagi." }

\* C23: the error PrayerTimesPage shows is one of the fixed messages of the
\* page, never the text of an exception, an HTTP status, or a field of a
\* response.
C23_StaticErrorMessages ==
  (route = "jadwal" /\ jadwal.error # NULL) =>
    jadwal.error[1] \in StaticMessages

\* what HijriCalendarPage renders of the Hijri part: the skeleton, the error
\* panel, the Hijri date
HijriLoadingShown == hijriPage.isLoading

HijriErrorShown == hijriPage.error # NULL

HijriDateShown == hijriPage.hijriDate # NULL /\ ~hijriPage.isLoading

\* C24: HijriCalendarPage shows exactly one of the loading skeleton, the
\* error panel and the Hijri date, also while several conversion requests
\* overlap.
C24_OneOfLoadingErrorSuccess ==
  \/ HijriLoadingShown /\ ~HijriErrorShown /\ ~HijriDateShown
  \/ ~HijriLoadingShown /\ HijriErrorShown /\ ~HijriDateShown
  \/ ~HijriLoadingShown /\ ~HijriErrorShown /\ HijriDateShown

\* C28: once no conversion request is in flight and none has failed since
\* the last navigation, the Hijri date shown is the conversion of
\* currentDate.
C28_LatestRequestWins ==
  (hijriReq = {} /\ hijriPage.error = NULL) =>
    hijriPage.hijriDate = Some(HijriDateOf(GToHBody(currentDate)))

----------------------------------------------------------------------------
(* Properties of the midnight interval of HomePage *)

\* C25: a mounted HomePage has exactly one midnight interval, also after
\* coords changed; while HomePage is not mounted no interval is active and
\* no request of it is pending.
C25_IntervalScopedToView ==
  /\ route = "home" => homeReq.interval = 1
  /\ route # "home" => homeReq = NoHomeReq

\* coords was set, so the effect that owns the interval has run again
C25_Witness ==
  /\ route = "home"
  /\ home.coords # NULL
  /\ homeReq.interval = 1
  /\ homeReq.timingsIssued >= 1

----------------------------------------------------------------------------
(* Properties of the next prayer on display *)

\* C26: while prayer times are loaded and the page is mounted, the next
\* prayer on display is the selection rule applied to the current
\* wall-clock minute.
C26_NextPrayerFollowsClock ==
  /\ npHome # NULL =>
       npHome = GetNextPrayer(FormattedPrayerTimes(npTimings[1]), npNow)
  /\ npJadwal # NULL =>
       npJadwal = NextPrayerMemo(
                    Some(PrayerTimesRecord(npTimings[1], ResponseDate)), npNow)

----------------------------------------------------------------------------
(* Properties of the system colour scheme *)

\* C27: a change of the system colour scheme while SettingsPage is mounted
\* sets isDarkMode to the new scheme as long as no dark-mode preference was
\* set by hand, and leaves isDarkMode as it is once one was set.
C27_SystemSchemeFollowed ==
  [][(settings # NULL /\ systemDark' # systemDark) =>
       /\ ~manualDark => settings'[1].isDarkMode = systemDark'
       /\ manualDark => settings' = settings]_vars

----------------------------------------------------------------------------
(* Properties of the QuranCard reader *)

\* C29: whenever the reader of QuranCard is open and loadingDetail is
\* false, surahDetail is absent or is the detail of the selected chapter;
\* loadingDetail is false only when no detail request of the card is in
\* flight.
C29_ReaderShowsSelected ==
  detailView = "card" =>
    /\ (reader.isReaderOpen /\ ~reader.loadingDetail) =>
         \/ reader.surahDetail = NULL
         \/ reader.surahDetail[1].nomor = chapterId[1]
    /\ ~reader.loadingDetail =>
         ~\E r \in detailReq : r.view = "card" /\ r.live

----------------------------------------------------------------------------
(* Properties of the month navigation *)

FirstOfMonth(d) == [year |-> d.year, month |-> d.month, day |-> 1]

\* a press of the next-month or previous-month button, undone by the other
\* button, gives day 1 of the month left; December and January are left for
\* the adjacent year; the grid is the one of the month arrived at
RoundTripStep ==
  /\ goToNextMonth =>
       /\ currentDate' = FirstOfMonth(currentDate')
       /\ MakeDate(currentDate'.year, currentDate'.month - 1, 1) =
            FirstOfMonth(currentDate)
       /\ currentDate.month = 11 =>
            currentDate' = [year |-> currentDate.year + 1, month |-> 0,
                            day |-> 1]
       /\ currentDate.month < 11 =>
            currentDate' = [year |-> currentDate.year,
                            month |-> currentDate.month + 1, day |-> 1]
  /\ goToPreviousMonth =>
       /\ currentDate' = FirstOfMonth(currentDate')
       /\ MakeDate(currentDate'.year, currentDate'.month + 1, 1) =
            FirstOfMonth(currentDate)
       /\ currentDate.month = 0 =>
            currentDate' = [year |-> currentDate.year - 1, month |-> 11,
                            day |-> 1]
       /\ currentDate.month > 0 =>
            currentDate' = [year |-> currentDate.year,
                            month |-> currentDate.month - 1, day |-> 1]
  /\ (goToNextMonth \/ goToPreviousMonth) =>
       /\ calendarDays' = BuildCalendarDays(currentDate', today')
       /\ Cardinality({i \in 1..Len(calendarDays') :
                         calendarDays'[i].isCurrentMonth}) =
            DaysInMonth(currentDate'.year, currentDate'.month)

\* C30: next month then previous month, and previous then next, return to
\* day 1 of the original month and year; next from December gives January
\* of the next year and previous from January gives December of the
\* previous year; after each step the grid is the grid of the month shown.
C30_MonthRoundTrip == [][RoundTripStep]_vars

\* the page was opened in December and shows January of the next year
C30_Witness ==
  /\ today.month = 11
  /\ currentDate = [year |-> today.year + 1, month |-> 0, day |-> 1]
  /\ calendarDays = BuildCalendarDays(currentDate, today)

============================================================================
